---- MODULE Spec2Model ----
(***************************************************************************)
(* Model of the OpenAPIParser class of kohlrabi (src/lib/main.js, lines    *)
(* 1336-1512): resolveRef, resolveSchema, generateExample,                *)
(* getEndpointsByTags and getWebhooks over an in-memory OpenAPI Document.  *)
(*                                                                         *)
(* JavaScript values are modelled as tagged records, one payload field per *)
(* kind.  A call that throws yields the value Throw(e).  The engine's call *)
(* stack is finite: a call made with no frame left throws RangeError, as   *)
(* V8 does ("Maximum call stack size exceeded").                           *)
(***************************************************************************)
EXTENDS Integers, Sequences, FiniteSets, TLC

-----------------------------------------------------------------------------
(* Bounds of the model                                                     *)

\* frames available on the engine's call stack
MaxStack == 14
\* deepest nesting of containers in the nested fixture schemas
MaxNest == 7
\* longest chain of schemas closing on itself in the chain documents
MaxChain == 3
\* largest depth argument a caller hands to generateExample
MaxDepthArg == 6

-----------------------------------------------------------------------------
(* JavaScript values                                                       *)

Undef == [k |-> "undefined"]
Null == [k |-> "null"]
Str(s) == [k |-> "string", s |-> s]
Num(n) == [k |-> "number", n |-> n]
Bool(b) == [k |-> "boolean", b |-> b]
Arr(a) == [k |-> "array", a |-> a]
\* a mapping: keys in insertion order, o the key -> value function
Obj(keys, o) == [k |-> "object", keys |-> keys, o |-> o]
\* the outcome of a call that raised
Throw(e) == [k |-> "throw", e |-> e]

EmptyObj == Obj(<<>>, <<>>)

IsThrow(v) == v.k = "throw"

\* the object literal { k1: v1, ..., kn: vn }, its keys distinct, given as
\* the sequence of the pairs <<ki, vi>>
ObjOf(pairs) ==
  Obj([i \in DOMAIN pairs |-> pairs[i][1]],
      [x \in {pairs[i][1] : i \in DOMAIN pairs} |->
         pairs[CHOOSE i \in DOMAIN pairs : pairs[i][1] = x][2]])

\* ToBoolean
Truthy(v) ==
  \/ v.k \in {"object", "array"}
  \/ v.k = "string" /\ v.s # ""
  \/ v.k = "number" /\ v.n # 0
  \/ v.k = "boolean" /\ v.b

\* decimal spelling of the array indices the model uses
IdxStr ==
  <<"0", "1", "2", "3", "4", "5", "6", "7", "8", "9", "10", "11", "12", "13",
    "14", "15", "16", "17", "18", "19", "20", "21", "22", "23", "24", "25",
    "26", "27", "28", "29", "30", "31">>

IsIdx(key, len) == \E i \in 1..len : i <= Len(IdxStr) /\ IdxStr[i] = key
IdxOf(key) == CHOOSE i \in 1..Len(IdxStr) : IdxStr[i] = key

\* v?.[key] : own properties of mappings, indices and length of sequences
\* and strings; undefined for everything else, null and undefined included
Get(v, key) ==
  CASE v.k = "object" -> IF key \in DOMAIN v.o THEN v.o[key] ELSE Undef
    [] v.k = "array" -> IF IsIdx(key, Len(v.a)) THEN v.a[IdxOf(key)]
                        ELSE IF key = "length" THEN Num(Len(v.a))
                        ELSE Undef
    [] v.k = "string" -> IF IsIdx(key, Len(v.s))
                           THEN Str(SubSeq(v.s, IdxOf(key), IdxOf(key)))
                         ELSE IF key = "length" THEN Num(Len(v.s))
                         ELSE Undef
    [] OTHER -> Undef

\* Object.entries(v) as a sequence of <<key, value>>
Entries(v) ==
  CASE v.k = "object" -> [i \in 1..Len(v.keys) |-> <<v.keys[i], v.o[v.keys[i]]>>]
    [] v.k = "array" -> [i \in 1..Len(v.a) |-> <<IdxStr[i], v.a[i]>>]
    [] v.k = "string" ->
         [i \in 1..Len(v.s) |-> <<IdxStr[i], Str(SubSeq(v.s, i, i))>>]
    [] OTHER -> <<>>

\* obj[key] = val on a mapping: a new key goes last, an old one keeps its place
Put(obj, key, val) ==
  IF key \in DOMAIN obj.o
    THEN Obj(obj.keys, [x \in DOMAIN obj.o |-> IF x = key THEN val ELSE obj.o[x]])
    ELSE Obj(Append(obj.keys, key),
             [x \in DOMAIN obj.o \cup {key} |-> IF x = key THEN val ELSE obj.o[x]])

-----------------------------------------------------------------------------
(* String primitives used by resolveRef                                    *)

RECURSIVE SplitFrom(_, _, _)
\* the pieces of s from position i on, cur being the piece read so far
SplitFrom(s, i, cur) ==
  IF i > Len(s) THEN <<cur>>
  ELSE IF SubSeq(s, i, i) = "/" THEN <<cur>> \o SplitFrom(s, i + 1, "")
  ELSE SplitFrom(s, i + 1, cur \o SubSeq(s, i, i))

\* ref.split('/')
Split(s) == SplitFrom(s, 1, "")

RECURSIVE ReplaceFrom(_, _, _, _)
\* s.replace(/pat/g, rep) from position i on: leftmost matches, no overlap
ReplaceFrom(s, i, pat, rep) ==
  IF i > Len(s) THEN ""
  ELSE IF i + Len(pat) - 1 <= Len(s) /\ SubSeq(s, i, i + Len(pat) - 1) = pat
    THEN rep \o ReplaceFrom(s, i + Len(pat), pat, rep)
  ELSE SubSeq(s, i, i) \o ReplaceFrom(s, i + 1, pat, rep)

\* a decoder that replaces the two escape sequences in the opposite order
Unescape_TildeFirst(seg) ==
  ReplaceFrom(ReplaceFrom(seg, 1, "~0", "~"), 1, "~1", "/")

\* parts[i].replace(/~1/g, '/').replace(/~0/g, '~')
Unescape(seg) == ReplaceFrom(ReplaceFrom(seg, 1, "~1", "/"), 1, "~0", "~")

RECURSIVE Walk(_, _, _)
\* the loop of resolveRef: index node by parts[i], parts[i+1], ...
Walk(node, parts, i) ==
  IF i > Len(parts) THEN node
  ELSE Walk(Get(node, Unescape(parts[i])), parts, i + 1)

-----------------------------------------------------------------------------
(* resolveRef                                                              *)

CircularMarker ==
  ObjOf(<< <<"type", Str("object")>>,
           <<"description", Str("[Circular Reference]")>> >>)

\* a resolver that never recognises a reference it has already visited
IsVisited_Never(ref, visited) == FALSE

\* visited.has(ref)
IsVisited(ref, visited) == ref \in visited

\* A call returns its value together with the visited set as the call left
\* it: the set is a shared, mutable object in the program.
Ret(val, visited) == [val |-> val, visited |-> visited]

\* a call that goes on without recording its reference
AddVisited_Forget(visited, ref) == visited

\* visited.add(ref)
AddVisited(visited, ref) == visited \cup {ref}

\* a cycle check that starts the set afresh when it answers with the marker
Circular_Reset(visited) == Ret(CircularMarker, {})

\* return { type: 'object', description: '[Circular Reference]' }, the set
\* as it was
Circular(visited) == Ret(CircularMarker, visited)

RECURSIVE ResolveRef(_, _, _, _)
ResolveRef(doc, ref, visited, stack) ==
  IF stack = 0 THEN Ret(Throw("RangeError"), visited)
  ELSE IF ~Truthy(ref) \/ ref.k # "string" THEN Ret(Null, visited)
  ELSE IF IsVisited(ref.s, visited) THEN Circular(visited)
  ELSE LET seen == AddVisited(visited, ref.s)
           result == Walk(doc, Split(ref.s), 2)
       IN IF Truthy(Get(result, "$ref"))
            THEN ResolveRef(doc, Get(result, "$ref"), seen, stack - 1)
            ELSE Ret(result, seen)

RECURSIVE ResolveRefCalls(_, _, _, _)
\* the number of resolveRef calls of one chain: the call itself and the
\* calls nested in it, as far as the stack reaches
ResolveRefCalls(doc, ref, visited, stack) ==
  IF stack = 0 THEN 0
  ELSE IF ~Truthy(ref) \/ ref.k # "string" THEN 1
  ELSE IF IsVisited(ref.s, visited) THEN 1
  ELSE LET seen == AddVisited(visited, ref.s)
           result == Walk(doc, Split(ref.s), 2)
       IN IF Truthy(Get(result, "$ref"))
            THEN 1 + ResolveRefCalls(doc, Get(result, "$ref"), seen, stack - 1)
            ELSE 1

-----------------------------------------------------------------------------
(* resolveSchema                                                           *)

\* resolveRef run on the caller's own set instead of a copy of it
BranchVisited_Shared(visited, mutated) == mutated

\* The set resolveSchema goes on with after resolveRef ran on
\* new Set(visited): the caller's own set, which the copy's mutation
\* (mutated) does not reach.
BranchVisited(visited, mutated) == visited

\* what for (const item of v) accepts; anything else is a TypeError
Iterable(v) == v.k \in {"array", "string"}

\* the items for (const item of v) runs over
Iterate(v) ==
  IF v.k = "array" THEN v.a
  ELSE [i \in 1..Len(v.s) |-> Str(SubSeq(v.s, i, i))]

RECURSIVE AssignFrom(_, _, _)
AssignFrom(target, entries, i) ==
  IF i > Len(entries) THEN target
  ELSE AssignFrom(Put(target, entries[i][1], entries[i][2]), entries, i + 1)

\* an assignment that keeps the value of a key the target already has
Assign_KeepFirst(target, source) ==
  AssignFrom(target,
             SelectSeq(Entries(source), LAMBDA e : e[1] \notin DOMAIN target.o),
             1)

\* Object.assign(target, source)
Assign(target, source) == AssignFrom(target, Entries(source), 1)

\* schema.type === 'array' && schema.items
IsArrayWithItems(schema) ==
  Get(schema, "type") = Str("array") /\ Truthy(Get(schema, "items"))

\* an object test that gives way to an allOf list
IsObjectWithProperties_AllOfFirst(schema) ==
  /\ Get(schema, "type") = Str("object")
  /\ Truthy(Get(schema, "properties"))
  /\ ~Truthy(Get(schema, "allOf"))

\* schema.type === 'object' && schema.properties
IsObjectWithProperties(schema) ==
  Get(schema, "type") = Str("object") /\ Truthy(Get(schema, "properties"))

\* a merge that carries a `required` list
Merged_WithRequired(properties) ==
  ObjOf(<< <<"type", Str("object")>>, <<"properties", properties>>,
           <<"required", Arr(<<>>)>> >>)

\* merged = { type: 'object', properties: {} } with the properties the loop
\* has assigned to it
Merged(properties) ==
  ObjOf(<< <<"type", Str("object")>>, <<"properties", properties>> >>)

\* a last branch that settles for the first alternative of oneOf or anyOf
Unchanged_FirstMember(schema) ==
  IF Get(schema, "oneOf").k = "array" /\ Get(schema, "oneOf").a # <<>>
    THEN Get(schema, "oneOf").a[1]
  ELSE IF Get(schema, "anyOf").k = "array" /\ Get(schema, "anyOf").a # <<>>
    THEN Get(schema, "anyOf").a[1]
  ELSE schema

\* return schema: the node itself, when no branch applies
Unchanged(schema) == schema

RECURSIVE ResolveSchema(_, _, _, _)
RECURSIVE ResolveProps(_, _, _, _, _, _)
RECURSIVE MergeAllOf(_, _, _, _, _, _)

\* the loop over Object.entries(schema.properties), from entry i on
ResolveProps(doc, entries, i, resolvedProps, visited, stack) ==
  IF i > Len(entries) THEN Ret(resolvedProps, visited)
  ELSE LET r == ResolveSchema(doc, entries[i][2], visited, stack - 1)
       IN IF IsThrow(r.val) THEN r
          ELSE ResolveProps(doc, entries, i + 1,
                            Put(resolvedProps, entries[i][1], r.val),
                            r.visited, stack)

\* the loop over schema.allOf, from item i on; properties is merged.properties
MergeAllOf(doc, items, i, properties, visited, stack) ==
  IF i > Len(items) THEN Ret(properties, visited)
  ELSE LET r == ResolveSchema(doc, items[i], visited, stack - 1)
       IN IF IsThrow(r.val) THEN r
          ELSE MergeAllOf(doc, items, i + 1,
                          IF Truthy(Get(r.val, "properties"))
                            THEN Assign(properties, Get(r.val, "properties"))
                            ELSE properties,
                          r.visited, stack)

ResolveSchema(doc, schema, visited, stack) ==
  IF stack = 0 THEN Ret(Throw("RangeError"), visited)
  ELSE IF ~Truthy(schema) THEN Ret(Null, visited)
  ELSE IF Truthy(Get(schema, "$ref")) THEN
    LET r == ResolveRef(doc, Get(schema, "$ref"), visited, stack - 1)
    IN IF IsThrow(r.val) THEN Ret(r.val, BranchVisited(visited, r.visited))
       ELSE ResolveSchema(doc, r.val, BranchVisited(visited, r.visited),
                          stack - 1)
  ELSE IF IsArrayWithItems(schema) THEN
    LET r == ResolveSchema(doc, Get(schema, "items"), visited, stack - 1)
    IN IF IsThrow(r.val) THEN r
       ELSE Ret(Put(schema, "items", r.val), r.visited)
  ELSE IF IsObjectWithProperties(schema) THEN
    LET r == ResolveProps(doc, Entries(Get(schema, "properties")), 1,
                          EmptyObj, visited, stack)
    IN IF IsThrow(r.val) THEN r
       ELSE Ret(Put(schema, "properties", r.val), r.visited)
  ELSE IF Truthy(Get(schema, "allOf")) THEN
    LET r == MergeAllOf(doc, Iterate(Get(schema, "allOf")), 1, EmptyObj,
                        visited, stack)
    IN IF ~Iterable(Get(schema, "allOf")) THEN Ret(Throw("TypeError"), visited)
       ELSE IF IsThrow(r.val) THEN r
       ELSE Ret(Merged(r.val), r.visited)
  ELSE Ret(Unchanged(schema), visited)

-----------------------------------------------------------------------------
(* generateExample                                                         *)

\* the depth cutoff of generateExample
MaxExampleDepth == 5

\* a cutoff that lets one more level through
DepthExceeded_Late(depth) == depth > MaxExampleDepth + 1

\* depth > 5
DepthExceeded(depth) == depth > MaxExampleDepth

\* a truthiness test in place of the comparison with undefined
HasExample_Truthy(resolved) == Truthy(Get(resolved, "example"))

\* resolved.example !== undefined
HasExample(resolved) == Get(resolved, "example") # Undef

\* a string example that looks at the format before the enum
StringExample_FormatFirst(resolved) ==
  IF Get(resolved, "format") = Str("date") THEN Str("2024-05-01")
  ELSE IF Get(resolved, "format") = Str("date-time")
    THEN Str("2024-05-01T12:00:00Z")
  ELSE IF Get(resolved, "format") = Str("uuid")
    THEN Str("550e8400-e29b-41d4-a716-446655440000")
  ELSE IF Truthy(Get(resolved, "enum")) THEN Get(Get(resolved, "enum"), "0")
  ELSE Str("string")

\* case 'string' of the switch
StringExample(resolved) ==
  IF Truthy(Get(resolved, "enum")) THEN Get(Get(resolved, "enum"), "0")
  ELSE IF Get(resolved, "format") = Str("date") THEN Str("2024-05-01")
  ELSE IF Get(resolved, "format") = Str("date-time")
    THEN Str("2024-05-01T12:00:00Z")
  ELSE IF Get(resolved, "format") = Str("uuid")
    THEN Str("550e8400-e29b-41d4-a716-446655440000")
  ELSE Str("string")

\* an array example that keeps the null example of its items
ArrayExample_KeepNull(itemExample) == Arr(<<itemExample>>)

\* itemExample !== null ? [itemExample] : []
ArrayExample(itemExample) ==
  IF itemExample # Null THEN Arr(<<itemExample>>) ELSE Arr(<<>>)

RECURSIVE GenerateExample(_, _, _, _)
RECURSIVE ExampleProps(_, _, _, _, _, _)

\* the loop over Object.entries(resolved.properties), from entry i on
ExampleProps(doc, entries, i, obj, depth, stack) ==
  IF i > Len(entries) THEN obj
  ELSE LET example == GenerateExample(doc, entries[i][2], depth + 1, stack - 1)
       IN IF IsThrow(example) THEN example
          ELSE ExampleProps(doc, entries, i + 1,
                            IF example # Null
                              THEN Put(obj, entries[i][1], example)
                              ELSE obj,
                            depth, stack)

GenerateExample(doc, schema, depth, stack) ==
  IF stack = 0 THEN Throw("RangeError")
  ELSE IF ~Truthy(schema) \/ DepthExceeded(depth) THEN Null
  ELSE
    LET resolved == ResolveSchema(doc, schema, {}, stack - 1).val
        type == Get(resolved, "type")
    IN IF IsThrow(resolved) THEN resolved
       ELSE IF ~Truthy(resolved) THEN Null
       ELSE IF HasExample(resolved) THEN Get(resolved, "example")
       ELSE IF type = Str("string") THEN StringExample(resolved)
       ELSE IF type \in {Str("number"), Str("integer")} THEN
         IF Truthy(Get(resolved, "example")) THEN Get(resolved, "example")
         ELSE Num(0)
       ELSE IF type = Str("boolean") THEN Bool(TRUE)
       ELSE IF type = Str("array") THEN
         LET itemExample ==
               GenerateExample(doc, Get(resolved, "items"), depth + 1, stack - 1)
         IN IF IsThrow(itemExample) THEN itemExample
            ELSE ArrayExample(itemExample)
       ELSE IF type = Str("object") THEN
         IF ~Truthy(Get(resolved, "properties")) THEN EmptyObj
         ELSE ExampleProps(doc, Entries(Get(resolved, "properties")), 1,
                           EmptyObj, depth, stack)
       ELSE Null

-----------------------------------------------------------------------------
(* getEndpointsByTags and getWebhooks                                      *)

\* a Map: its entries <<key, value>> in insertion order
MapOf(entries) == [k |-> "map", entries |-> entries]

\* a Map that forgets which keys it holds
MapHas_Never(map, key) == FALSE

\* tagMap.has(key)
MapHas(map, key) == \E i \in DOMAIN map.entries : map.entries[i][1] = key

\* tagMap.get(key), for a key the Map has
MapGet(map, key) ==
  map.entries[CHOOSE i \in DOMAIN map.entries : map.entries[i][1] = key][2]

\* a Map that puts a new key in front of the keys it holds
MapSet_Front(map, key, value) ==
  IF \E i \in DOMAIN map.entries : map.entries[i][1] = key
    THEN MapOf([i \in DOMAIN map.entries |->
                  IF map.entries[i][1] = key THEN <<key, value>>
                  ELSE map.entries[i]])
    ELSE MapOf(<< <<key, value>> >> \o map.entries)

\* tagMap.set(key, value): a new key goes last, an old one keeps its place
MapSet(map, key, value) ==
  IF \E i \in DOMAIN map.entries : map.entries[i][1] = key
    THEN MapOf([i \in DOMAIN map.entries |->
                  IF map.entries[i][1] = key THEN <<key, value>>
                  ELSE map.entries[i]])
    ELSE MapOf(Append(map.entries, <<key, value>>))

\* Array.from(tagMap.values())
MapValues(map) == Arr([i \in DOMAIN map.entries |-> map.entries[i][2]])

\* x || fallback
OrElse(x, fallback) == IF Truthy(x) THEN x ELSE fallback

\* reading a property of v, or Object.entries(v), raises TypeError
Nullish(v) == v.k \in {"null", "undefined"}

\* { name, description, endpoints: [] }
Group(name, description) ==
  ObjOf(<< <<"name", name>>, <<"description", description>>,
           <<"endpoints", Arr(<<>>)>> >>)

\* group.endpoints.push(endpoint)
Push(group, endpoint) ==
  Put(group, "endpoints", Arr(Append(Get(group, "endpoints").a, endpoint)))

\* a verb test that lets every key of a path item through
IsVerb_AnyKey(method) == TRUE

\* ['get', 'post', 'put', 'patch', 'delete'].includes(method)
IsVerb(method) == method \in {"get", "post", "put", "patch", "delete"}

\* an operation without tags is given no tag at all
TagsOf_NoDefault(endpoint) == OrElse(Get(endpoint, "tags"), Arr(<<>>))

\* endpoint.tags || ['Other']
TagsOf(endpoint) == OrElse(Get(endpoint, "tags"), Arr(<<Str("Other")>>))

\* { path, method, ...endpoint }
Endpoint(path, method, endpoint) ==
  Assign(ObjOf(<< <<"path", Str(path)>>, <<"method", Str(method)>> >>), endpoint)

RECURSIVE SeedTags(_, _, _)
\* the loop over spec.tags, from tag i on
SeedTags(tags, i, tagMap) ==
  IF i > Len(tags) THEN tagMap
  ELSE IF Nullish(tags[i]) THEN Throw("TypeError")
  ELSE SeedTags(tags, i + 1,
                MapSet(tagMap, Get(tags[i], "name"),
                       Group(Get(tags[i], "name"), Get(tags[i], "description"))))

RECURSIVE AddToTags(_, _, _, _)
\* the loop over the tags of one operation, from tag i on
AddToTags(tags, i, tagMap, endpoint) ==
  IF i > Len(tags) THEN tagMap
  ELSE LET known == IF MapHas(tagMap, tags[i]) THEN tagMap
                    ELSE MapSet(tagMap, tags[i], Group(tags[i], Str("")))
       IN AddToTags(tags, i + 1,
                    MapSet(known, tags[i], Push(MapGet(known, tags[i]), endpoint)),
                    endpoint)

RECURSIVE WalkMethods(_, _, _, _)
\* the loop over the entries of one path item, from entry j on
WalkMethods(path, entries, j, tagMap) ==
  IF j > Len(entries) THEN tagMap
  ELSE LET method == entries[j][1]
           endpoint == entries[j][2]
       IN IF ~IsVerb(method) THEN WalkMethods(path, entries, j + 1, tagMap)
          ELSE IF Nullish(endpoint) THEN Throw("TypeError")
          ELSE IF ~Iterable(TagsOf(endpoint)) THEN Throw("TypeError")
          ELSE WalkMethods(path, entries, j + 1,
                           AddToTags(Iterate(TagsOf(endpoint)), 1, tagMap,
                                     Endpoint(path, method, endpoint)))

RECURSIVE WalkPaths(_, _, _)
\* the loop over the entries of spec.paths, from entry i on
WalkPaths(entries, i, tagMap) ==
  IF i > Len(entries) THEN tagMap
  ELSE IF Nullish(entries[i][2]) THEN Throw("TypeError")
  ELSE LET walked == WalkMethods(entries[i][1], Entries(entries[i][2]), 1, tagMap)
       IN IF IsThrow(walked) THEN walked
          ELSE WalkPaths(entries, i + 1, walked)

GetEndpointsByTags(doc) ==
  LET tags == OrElse(Get(doc, "tags"), Arr(<<>>))
      seeded == SeedTags(Iterate(tags), 1, MapOf(<<>>))
      walked == WalkPaths(Entries(OrElse(Get(doc, "paths"), EmptyObj)), 1, seeded)
  IN IF ~Iterable(tags) THEN Throw("TypeError")
     ELSE IF IsThrow(seeded) THEN seeded
     ELSE IF IsThrow(walked) THEN walked
     ELSE MapValues(walked)

\* an entry that leaves out the fields stored under the key
WebhookEntry_NoFields(name, method, details) ==
  ObjOf(<< <<"name", Str(name)>>, <<"method", Str(method)>> >>)

\* { name, method, ...details }
WebhookEntry(name, method, details) ==
  Assign(ObjOf(<< <<"name", Str(name)>>, <<"method", Str(method)>> >>), details)

RECURSIVE WalkWebhooks(_, _, _)
\* the loop over the entries of spec.webhooks, from entry i on
WalkWebhooks(entries, i, webhooks) ==
  IF i > Len(entries) THEN Arr(webhooks)
  ELSE IF Nullish(entries[i][2]) THEN Throw("TypeError")
  ELSE LET methods == Entries(entries[i][2])
       IN WalkWebhooks(entries, i + 1,
                       webhooks \o [j \in DOMAIN methods |->
                                      WebhookEntry(entries[i][1], methods[j][1],
                                                   methods[j][2])])

GetWebhooks(doc) ==
  WalkWebhooks(Entries(OrElse(Get(doc, "webhooks"), EmptyObj)), 1, <<>>)

-----------------------------------------------------------------------------
(* Documents                                                               *)

RefTo(n) == "#/components/schemas/" \o n

\* { $ref: '#/components/schemas/n' }
SRef(n) == ObjOf(<< <<"$ref", Str(RefTo(n))>> >>)

\* { type: t }
Typed(t) == ObjOf(<< <<"type", Str(t)>> >>)

\* a plain object schema without references
User ==
  ObjOf(<< <<"type", Str("object")>>,
           <<"properties", ObjOf(<< <<"id", Typed("integer")>>,
                                    <<"name", Typed("string")>> >>)>>,
           <<"required", Arr(<<Str("id")>>)>> >>)

\* the Document whose components.schemas is the mapping schemas
DocOf(schemas) ==
  ObjOf(<< <<"openapi", Str("3.0.0")>>,
           <<"components", ObjOf(<< <<"schemas", schemas>> >>)>> >>)

\* spec.components?.schemas || {}
SchemasOf(d) == OrElse(Get(Get(d, "components"), "schemas"), EmptyObj)

\* the names a schema of the generated documents may refer to
Targets == {"A", "B", "User", "Missing"}

\* the pairs of targets of a schema with two references: twice the same
\* target, or a target and User
TargetPairs == {p \in Targets \X Targets : p[2] \in {p[1], "User"}}

\* the shapes of the schema A of the generated documents
ShapesA ==
  {SRef(t) : t \in Targets}
  \cup {Typed("string")}
  \cup {ObjOf(<< <<"type", Str("object")>>,
                 <<"properties", ObjOf(<< <<"a", SRef(p[1])>>,
                                          <<"b", SRef(p[2])>> >>)>> >>)
          : p \in TargetPairs}
  \cup {ObjOf(<< <<"type", Str("array")>>, <<"items", SRef(t)>> >>) : t \in Targets}
  \cup {ObjOf(<< <<"allOf", Arr(<<SRef(p[1]), SRef(p[2])>>)>> >>)
          : p \in TargetPairs}
  \cup {ObjOf(<< <<"properties", ObjOf(<< <<"x", SRef(t)>> >>)>> >>) : t \in Targets}
  \cup {ObjOf(<< <<"oneOf", Arr(<<SRef(t)>>)>> >>) : t \in Targets}
  \cup {ObjOf(<< <<"type", Str("object")>>,
                 <<"properties", ObjOf(<< <<"p", Typed("string")>> >>)>>,
                 <<"allOf", Arr(<<SRef(t)>>)>> >>) : t \in Targets}

\* the shapes of the schema B of the generated documents
ShapesB ==
  { SRef("A"), SRef("User"), Typed("string"),
    ObjOf(<< <<"type", Str("object")>>,
             <<"properties", ObjOf(<< <<"a", SRef("User")>>,
                                      <<"b", SRef("User")>> >>)>> >>),
    ObjOf(<< <<"properties", ObjOf(<< <<"x", SRef("User")>> >>)>> >>),
    ObjOf(<< <<"type", Str("array")>>, <<"items", SRef("A")>> >>) }

GenDocs ==
  {DocOf(ObjOf(<< <<"A", a>>, <<"B", b>>, <<"User", User>> >>))
     : a \in ShapesA, b \in ShapesB}

\* the ways a schema of a chain document points to the next one
LinkKinds == {"ref", "properties", "items", "allOf"}

Link(kind, n) ==
  CASE kind = "ref" -> SRef(n)
    [] kind = "properties" ->
         ObjOf(<< <<"type", Str("object")>>,
                  <<"properties", ObjOf(<< <<"child", SRef(n)>> >>)>> >>)
    [] kind = "items" ->
         ObjOf(<< <<"type", Str("array")>>, <<"items", SRef(n)>> >>)
    [] kind = "allOf" -> ObjOf(<< <<"allOf", Arr(<<SRef(n)>>)>> >>)

ChainName(i) == "N" \o IdxStr[i + 1]

\* N1 -> N2 -> ... -> Nk -> N1: N1 points on by `first`, the others by `rest`
ChainDoc(k, first, rest) ==
  DocOf(ObjOf([i \in 1..k |->
                 <<ChainName(i),
                   Link(IF i = 1 THEN first ELSE rest, ChainName((i % k) + 1))>>]))

ChainDocs ==
  {ChainDoc(k, first, rest) : k \in 1..MaxChain, first \in LinkKinds,
                              rest \in LinkKinds}

RECURSIVE NestObj(_)
\* objects nested n levels deep around a string
NestObj(n) ==
  IF n = 0 THEN Typed("string")
  ELSE ObjOf(<< <<"type", Str("object")>>,
                <<"properties", ObjOf(<< <<"child", NestObj(n - 1)>> >>)>> >>)

RECURSIVE NestArr(_)
\* arrays nested n levels deep around a string
NestArr(n) ==
  IF n = 0 THEN Typed("string")
  ELSE ObjOf(<< <<"type", Str("array")>>, <<"items", NestArr(n - 1)>> >>)

NestDoc ==
  DocOf(ObjOf([i \in 1..(2 * MaxNest) |->
                 IF i <= MaxNest THEN <<"Obj" \o IdxStr[i + 1], NestObj(i)>>
                 ELSE <<"Arr" \o IdxStr[i - MaxNest + 1], NestArr(i - MaxNest)>>]))

\* the schemas the example fixtures are built on
ExBases ==
  << Typed("string"), Typed("number"), Typed("integer"), Typed("boolean"),
     Typed("object"), Typed("array"), EmptyObj,
     ObjOf(<< <<"type", Str("object")>>,
              <<"properties", ObjOf(<< <<"p", Typed("string")>> >>)>> >>),
     ObjOf(<< <<"type", Str("array")>>, <<"items", Typed("string")>> >>),
     ObjOf(<< <<"allOf", Arr(<<User>>)>> >>),
     ObjOf(<< <<"oneOf", Arr(<<Typed("string")>>)>> >>),
     ObjOf(<< <<"anyOf", Arr(<<Typed("string")>>)>> >>) >>

\* the values the example fixtures declare as `example`
ExValues ==
  << Num(0), Bool(FALSE), Str(""), Null, Num(7), Str("x"),
     ObjOf(<< <<"a", Num(1)>> >>) >>

\* schema Eij: base i as it is (j = 0) or with example value j
ExampleDoc ==
  DocOf(ObjOf([n \in 1..(Len(ExBases) * (Len(ExValues) + 1)) |->
    LET i == ((n - 1) \div (Len(ExValues) + 1)) + 1
        j == (n - 1) % (Len(ExValues) + 1)
    IN <<"E" \o IdxStr[i + 1] \o "_" \o IdxStr[j + 1],
         IF j = 0 THEN ExBases[i] ELSE Put(ExBases[i], "example", ExValues[j])>>]))

\* ill-formed and borderline schema nodes
Malformed ==
  << ObjOf(<< <<"$ref", Num(42)>> >>),
     ObjOf(<< <<"$ref", EmptyObj>> >>),
     ObjOf(<< <<"$ref", Str("")>> >>),
     ObjOf(<< <<"$ref", Str("#/components/none/X")>> >>),
     ObjOf(<< <<"$ref", Str("#/openapi/x/y")>> >>),
     ObjOf(<< <<"allOf", Num(5)>> >>),
     ObjOf(<< <<"allOf", EmptyObj>> >>),
     ObjOf(<< <<"allOf", Str("ab")>> >>),
     ObjOf(<< <<"allOf", Arr(<<Null, Num(1), Typed("string")>>)>> >>),
     ObjOf(<< <<"type", Str("object")>>, <<"properties", Str("ab")>> >>),
     ObjOf(<< <<"type", Str("object")>>, <<"properties", Num(7)>> >>),
     ObjOf(<< <<"type", Str("object")>>,
              <<"properties", Arr(<<Typed("boolean")>>)>> >>),
     ObjOf(<< <<"type", Str("object")>>,
              <<"properties", ObjOf(<< <<"p", SRef("Missing")>>,
                                       <<"q", Null>> >>)>> >>),
     ObjOf(<< <<"type", Str("string")>>, <<"enum", Arr(<<>>)>> >>),
     ObjOf(<< <<"type", Str("string")>>, <<"enum", Num(3)>> >>),
     ObjOf(<< <<"type", Str("string")>>, <<"enum", Str("xy")>> >>),
     ObjOf(<< <<"type", Str("string")>>, <<"enum", Arr(<<Str("a"), Str("b")>>)>> >>),
     ObjOf(<< <<"type", Str("array")>>, <<"items", SRef("Missing")>> >>),
     ObjOf(<< <<"type", Str("array")>>, <<"items", Arr(<<>>)>> >>),
     Typed("array"),
     ObjOf(<< <<"type", Num(5)>> >>),
     Typed("mystery"),
     Str("abc"), Num(3), Bool(TRUE), Arr(<<SRef("User")>>),
     ObjOf(<< <<"type", Str("object")>>,
              <<"properties",
                ObjOf(<< <<"a", SRef("User")>>,
                         <<"list", ObjOf(<< <<"type", Str("array")>>,
                                            <<"items", SRef("User")>> >>)>>,
                         <<"c", SRef("User")>> >>)>> >>) >>

\* schema Mi is Malformed[i]
MalformedDoc ==
  DocOf(ObjOf([i \in 1..(Len(Malformed) + 1) |->
                 IF i <= Len(Malformed) THEN <<"M" \o IdxStr[i + 1], Malformed[i]>>
                 ELSE <<"User", User>>]))

\* keys with the characters a reference has to escape
EscapeKeys ==
  << "/users/{id}", "/", "~", "~1", "~0", "~01", "a/b", "a~b", "~/", "/~",
     "~~", "//", "plain", "" >>

\* a document whose `paths` has the keys EscapeKeys, each path item
\* recognisable by its summary
EscapeDoc ==
  Put(DocOf(ObjOf(<< <<"User", User>> >>)), "paths",
      ObjOf([i \in 1..Len(EscapeKeys) |->
               <<EscapeKeys[i],
                 ObjOf(<< <<"summary", Str(EscapeKeys[i])>> >>)>>]))

\* { type: 'object', properties: props }
ObjectOf(props) ==
  ObjOf(<< <<"type", Str("object")>>, <<"properties", ObjOf(props)>> >>)

\* { allOf: members }
AllOf(members) == ObjOf(<< <<"allOf", Arr(members)>> >>)

\* a document of allOf compositions: members that define the same property
\* differently, members without properties, members behind references
MergeDoc ==
  DocOf(ObjOf(<<
    <<"Base", ObjectOf(<< <<"id", Typed("integer")>>,
                          <<"name", Typed("string")>> >>)>>,
    <<"Over", ObjectOf(<< <<"name", ObjectOf(<< <<"first", Typed("string")>> >>)>>,
                          <<"extra", Typed("boolean")>> >>)>>,
    <<"NoProps", Typed("string")>>,
    <<"Two", AllOf(<<SRef("Base"), SRef("Over")>>)>>,
    <<"TwoBack", AllOf(<<SRef("Over"), SRef("Base")>>)>>,
    <<"Mixed", AllOf(<<SRef("Base"), SRef("NoProps"),
                       ObjOf(<< <<"description", Str("d")>> >>),
                       SRef("Over"), Null>>)>>,
    <<"Deep", AllOf(<<
        ObjOf(<< <<"properties",
                   ObjOf(<< <<"name", ObjectOf(<< <<"first", Typed("string")>> >>)>> >>)>> >>),
        ObjOf(<< <<"properties",
                   ObjOf(<< <<"name", ObjectOf(<< <<"last", Typed("string")>> >>)>> >>)>> >>)
      >>)>>,
    <<"Linked", AllOf(<<ObjectOf(<< <<"owner", SRef("Base")>> >>),
                        ObjectOf(<< <<"id", Typed("string")>> >>),
                        SRef("Two")>>)>>,
    <<"Empty", AllOf(<<>>)>>,
    <<"Strict",
      ObjOf(<< <<"required", Arr(<<Str("name")>>)>>,
               <<"example", ObjOf(<< <<"id", Num(1)>> >>)>>,
               <<"oneOf", Arr(<<SRef("Base")>>)>>,
               <<"allOf", Arr(<<
                   ObjOf(<< <<"type", Str("object")>>,
                            <<"properties", ObjOf(<< <<"id", Typed("integer")>> >>)>>,
                            <<"required", Arr(<<Str("id")>>)>>,
                            <<"description", Str("m")>>,
                            <<"additionalProperties", Bool(FALSE)>> >>),
                   SRef("Over")>>)>> >>)>>,
    <<"Described",
      ObjOf(<< <<"description", Str("d")>>,
               <<"required", Arr(<<Str("id")>>)>>,
               <<"allOf", Arr(<<SRef("Base"), SRef("Over")>>)>> >>)>> >>))

\* schemas that fit more than one branch of resolveSchema
PrecedenceDoc ==
  LET leaf == SRef("Leaf")
      props == ObjOf(<< <<"p", leaf>> >>)
  IN DocOf(ObjOf(<<
    <<"Leaf", ObjectOf(<< <<"name", Typed("string")>> >>)>>,
    <<"RefArr", ObjOf(<< <<"$ref", Str(RefTo("Leaf"))>>,
                         <<"type", Str("array")>>, <<"items", leaf>>,
                         <<"description", Str("d")>> >>)>>,
    <<"RefObj", ObjOf(<< <<"type", Str("object")>>, <<"properties", props>>,
                         <<"$ref", Str(RefTo("Leaf"))>>,
                         <<"allOf", Arr(<<leaf>>)>> >>)>>,
    <<"ArrAll", ObjOf(<< <<"type", Str("array")>>, <<"properties", props>>,
                         <<"allOf", Arr(<<leaf>>)>>, <<"items", leaf>> >>)>>,
    <<"ObjAll", ObjOf(<< <<"allOf", Arr(<<leaf>>)>>, <<"type", Str("object")>>,
                         <<"properties", props>> >>)>>,
    <<"ArrOnly", ObjOf(<< <<"type", Str("array")>>,
                          <<"allOf", Arr(<<leaf>>)>> >>)>>,
    <<"ObjOnly", ObjOf(<< <<"type", Str("object")>>,
                          <<"allOf", Arr(<<leaf>>)>>,
                          <<"oneOf", Arr(<<leaf>>)>> >>)>>,
    <<"Choice", ObjOf(<< <<"oneOf", Arr(<<leaf, Typed("string")>>)>>,
                         <<"description", Str("d")>> >>)>>,
    <<"Any", ObjOf(<< <<"anyOf", Arr(<<leaf>>)>>,
                      <<"properties", props>> >>)>>,
    <<"TypedChoice", ObjOf(<< <<"type", Str("string")>>,
                              <<"oneOf", Arr(<<leaf>>)>> >>)>> >>))

\* [n1, n2, ...] as a list of tag names
TagList(names) == Arr([i \in DOMAIN names |-> Str(names[i])])

\* { name, description } of the top-level `tags`
Tag(name, description) ==
  ObjOf(<< <<"name", Str(name)>>, <<"description", Str(description)>> >>)

\* operations: with two tags, one tag, no `tags` field, a tag no other
\* operation has, an empty tag list, one tag twice, own fields named `path`
\* and `method`, the tag `Other` spelled out
OpAB == ObjOf(<< <<"summary", Str("ab")>>, <<"tags", TagList(<<"A", "B">>)>> >>)
OpB == ObjOf(<< <<"operationId", Str("b")>>, <<"tags", TagList(<<"B">>)>> >>)
OpNone == ObjOf(<< <<"summary", Str("untagged")>> >>)
OpCA == ObjOf(<< <<"tags", TagList(<<"C", "A">>)>>, <<"deprecated", Bool(TRUE)>> >>)
OpEmpty == ObjOf(<< <<"summary", Str("empty")>>, <<"tags", TagList(<<>>)>> >>)
OpTwice == ObjOf(<< <<"summary", Str("twice")>>, <<"tags", TagList(<<"A", "A">>)>> >>)
OpNamed ==
  ObjOf(<< <<"path", Str("/own")>>, <<"method", Str("own")>>,
           <<"tags", TagList(<<"A">>)>> >>)
OpOther == ObjOf(<< <<"tags", TagList(<<"Other", "D">>)>> >>)

\* path items whose operations are mappings or other non-null values
PathItems ==
  << ObjOf(<< <<"get", OpAB>> >>),
     ObjOf(<< <<"get", OpNone>>, <<"post", OpB>> >>),
     ObjOf(<< <<"summary", Str("s")>>,
              <<"parameters", Arr(<<ObjOf(<< <<"name", Str("id")>> >>)>>)>>,
              <<"head", ObjOf(<< <<"tags", TagList(<<"H">>)>> >>)>>,
              <<"delete", OpCA>>,
              <<"options", OpB>>,
              <<"GET", ObjOf(<< <<"tags", TagList(<<"U">>)>> >>)>>,
              <<"put", OpAB>>,
              <<"patch", OpNone>> >>),
     ObjOf(<< <<"post", OpEmpty>>, <<"get", OpTwice>> >>),
     ObjOf(<< <<"get", OpNamed>>, <<"put", OpOther>> >>),
     EmptyObj,
     ObjOf(<< <<"get", EmptyObj>>, <<"delete", Num(5)>>, <<"trace", Null>> >>) >>

\* path items of a shape the walk is not written for
BadPathItems ==
  << Null,
     ObjOf(<< <<"post", OpB>>, <<"get", Null>> >>),
     ObjOf(<< <<"get", ObjOf(<< <<"tags", Num(5)>> >>)>> >>),
     ObjOf(<< <<"get", ObjOf(<< <<"tags", EmptyObj>> >>)>> >>),
     ObjOf(<< <<"get", ObjOf(<< <<"tags", Str("AB")>> >>)>> >>) >>

\* the mappings `paths` of the index fixtures; Undef for no `paths` at all
PathSets ==
  << ObjOf(<< <<"/a", PathItems[1]>> >>),
     ObjOf(<< <<"/a", PathItems[2]>>, <<"/b", PathItems[1]>> >>),
     ObjOf(<< <<"/a", PathItems[3]>> >>),
     ObjOf(<< <<"/b", PathItems[1]>>, <<"/a", PathItems[3]>> >>),
     ObjOf(<< <<"/a", PathItems[4]>>, <<"/b", PathItems[2]>> >>),
     ObjOf(<< <<"/a", PathItems[5]>>, <<"/b", PathItems[1]>> >>),
     ObjOf(<< <<"/a", PathItems[6]>> >>),
     ObjOf(<< <<"/a", PathItems[7]>>, <<"/b", PathItems[2]>> >>),
     Undef >>

\* the mappings `paths` with one path item of BadPathItems after a good one
BadPathSets ==
  [i \in DOMAIN BadPathItems |->
     ObjOf(<< <<"/a", PathItems[1]>>, <<"/b", BadPathItems[i]>> >>)]

\* the top-level `tags` of the index fixtures; Undef for no `tags` at all
TagDecls ==
  << Undef,
     Arr(<<Tag("A", "about A"), Tag("B", "about B")>>),
     Arr(<<Tag("B", "about B"), Tag("Other", "the rest"), Tag("Z", "unused")>>),
     Arr(<<ObjOf(<< <<"name", Str("C")>> >>)>>),
     Arr(<<>>) >>

\* top-level `tags` of a shape the seeding is not written for
BadTagDecls ==
  << Num(5), Arr(<<Null>>), Arr(<<Tag("A", "about A"), Num(1)>>), Str("AB"),
     ObjOf(<< <<"A", Str("about A")>> >>) >>

\* the mappings `webhooks` of the index fixtures
WebhookSets ==
  << ObjOf(<< <<"newPet", ObjOf(<< <<"post", OpAB>> >>)>>,
              <<"ping", ObjOf(<< <<"get", EmptyObj>>,
                                 <<"head", ObjOf(<< <<"description", Str("d")>> >>)>>,
                                 <<"post", ObjOf(<< <<"name", Str("own")>>,
                                                    <<"method", Str("own")>> >>)>> >>)>> >>),
     EmptyObj,
     ObjOf(<< <<"quiet", EmptyObj>>, <<"odd", ObjOf(<< <<"post", Null>>,
                                                       <<"get", Num(5)>> >>)>> >>),
     Num(5) >>

\* mappings `webhooks` with a webhook that is null
BadWebhookSets ==
  << ObjOf(<< <<"gone", Null>> >>),
     ObjOf(<< <<"newPet", ObjOf(<< <<"post", OpAB>> >>)>>, <<"gone", Null>> >>) >>

\* doc with doc[key] = value, or doc itself when there is no value
With(d, key, value) == IF value = Undef THEN d ELSE Put(d, key, value)

\* the Document with the given `tags`, `paths` and `webhooks`, and no
\* `components`
IndexDoc(tags, paths, webhooks) ==
  With(With(With(ObjOf(<< <<"openapi", Str("3.0.0")>> >>), "tags", tags),
            "paths", paths),
       "webhooks", webhooks)

IndexDocs ==
  {IndexDoc(TagDecls[t], PathSets[p], Undef) :
     t \in DOMAIN TagDecls, p \in DOMAIN PathSets}
  \cup {IndexDoc(TagDecls[2], BadPathSets[p], Undef) : p \in DOMAIN BadPathSets}
  \cup {IndexDoc(BadTagDecls[t], PathSets[2], Undef) : t \in DOMAIN BadTagDecls}
  \cup {IndexDoc(TagDecls[2], PathSets[1], WebhookSets[w]) : w \in DOMAIN WebhookSets}
  \cup {IndexDoc(Undef, Undef, BadWebhookSets[w]) : w \in DOMAIN BadWebhookSets}

\* { type: t, format: f }
Formatted(t, f) == ObjOf(<< <<"type", Str(t)>>, <<"format", Str(f)>> >>)

\* a document of leaf schemas: strings with a format, an enum or both,
\* numbers and booleans with a format or an enum, and containers of them
TypeDoc ==
  DocOf(ObjOf(<<
    <<"Date", Formatted("string", "date")>>,
    <<"DateTime", Formatted("string", "date-time")>>,
    <<"Uuid", Formatted("string", "uuid")>>,
    <<"Email", Formatted("string", "email")>>,
    <<"Colour", ObjOf(<< <<"type", Str("string")>>,
                         <<"enum", Arr(<<Str("red"), Str("green")>>)>> >>)>>,
    <<"Day", ObjOf(<< <<"type", Str("string")>>,
                      <<"format", Str("date")>>,
                      <<"enum", Arr(<<Str("2020-02-02")>>)>> >>)>>,
    <<"Count", Formatted("integer", "date")>>,
    <<"Level", ObjOf(<< <<"type", Str("number")>>,
                        <<"enum", Arr(<<Num(3), Num(4)>>)>> >>)>>,
    <<"Flag", ObjOf(<< <<"type", Str("boolean")>>,
                       <<"enum", Arr(<<Bool(FALSE)>>)>> >>)>>,
    <<"Untyped", ObjOf(<< <<"format", Str("date")>>,
                          <<"enum", Arr(<<Str("a")>>)>> >>)>>,
    <<"Nothing", Typed("null")>>,
    <<"Days", ObjOf(<< <<"type", Str("array")>>, <<"items", SRef("Day")>> >>)>>,
    <<"Nulls", ObjOf(<< <<"type", Str("array")>>, <<"items", Typed("null")>> >>)>>,
    <<"Record",
      ObjectOf(<< <<"id", SRef("Uuid")>>,
                  <<"gap", Typed("null")>>,
                  <<"at", Formatted("string", "date-time")>>,
                  <<"none", ObjOf(<< <<"type", Str("string")>>,
                                     <<"example", Null>> >>)>>,
                  <<"tags", ObjOf(<< <<"type", Str("array")>>,
                                     <<"items", Typed("null")>> >>)>>,
                  <<"on", Typed("boolean")>> >>)>> >>))

Docs ==
  GenDocs \cup ChainDocs \cup IndexDocs
  \cup {NestDoc, ExampleDoc, MalformedDoc, EscapeDoc, MergeDoc, TypeDoc,
        PrecedenceDoc}

-----------------------------------------------------------------------------
(* The caller of the parser                                                *)

\* the schema names of document d, in order
NamesOf(d) == SchemasOf(d).keys

NameSet(d) == {NamesOf(d)[i] : i \in 1..Len(NamesOf(d))}

\* a key written as a reference segment: `~` becomes `~0`, then `/`
\* becomes `~1`
Escape(key) == ReplaceFrom(ReplaceFrom(key, 1, "~", "~0"), 1, "/", "~1")

\* the reference to the path item stored under key
PathRef(key) == "#/paths/" \o Escape(key)

\* the keys of the mapping `paths` of document d
PathKeys(d) ==
  LET paths == Get(d, "paths")
  IN IF paths.k = "object" THEN DOMAIN paths.o ELSE {}

\* references to places that are in no document: below a missing key and
\* below the string `openapi`
DanglingRefs == {"#/nothing/at/all", "#/openapi/x/y", "#/openapi/length"}

\* the references a caller resolves against document d
RefInputs(d) ==
  {Str(RefTo(n)) : n \in NameSet(d) \cup {"Missing"}} \cup {Undef, Str(""), Num(1)}
  \cup {Str(PathRef(key)) : key \in PathKeys(d)}
  \cup {Str(ref) : ref \in DanglingRefs}

\* the schema nodes a caller hands to resolveSchema and generateExample:
\* nothing, the nodes of components.schemas, and references to them
SchemaInputs(d) ==
  {Undef, Null}
  \cup {SchemasOf(d).o[n] : n \in NameSet(d)}
  \cup {SRef(n) : n \in NameSet(d) \cup {"Missing"}}

VARIABLES doc, op, arg, depth, visited, res

vars == <<doc, op, arg, depth, visited, res>>

Init ==
  /\ doc \in Docs
  /\ op = "idle"
  /\ arg = Undef
  /\ depth = 0
  /\ visited = {}
  /\ res = Undef

\* a default argument evaluated once and kept: the call goes on with the
\* set the caller's previous call left behind
DefaultVisited_Reused(left) == left

\* the default argument `visited = new Set()`: a new, empty set on every
\* call, whatever set (left) an earlier call has left behind
DefaultVisited(left) == {}

\* parser.resolveRef(ref) with the default, fresh visited set
CallResolveRef ==
  /\ op = "idle"
  /\ \E ref \in RefInputs(doc) :
       LET r == ResolveRef(doc, ref, DefaultVisited(visited), MaxStack)
       IN /\ arg' = ref
          /\ res' = r.val
          /\ visited' = r.visited
  /\ op' = "resolveRef"
  /\ UNCHANGED <<doc, depth>>

\* a second parser.resolveRef(ref, visited) on the set the first call used
CallResolveRefShared ==
  /\ op = "resolveRef"
  /\ \E ref \in RefInputs(doc) :
       LET r == ResolveRef(doc, ref, visited, MaxStack)
       IN /\ arg' = ref
          /\ res' = r.val
          /\ visited' = r.visited
  /\ op' = "resolveRefShared"
  /\ UNCHANGED <<doc, depth>>

\* parser.resolveRef(ref) once more, with the default visited set, while the
\* caller still holds the set of the first call
CallResolveRefRepeat ==
  /\ op = "resolveRef"
  /\ op' = "resolveRefRepeat"
  /\ res' = ResolveRef(doc, arg, DefaultVisited(visited), MaxStack).val
  /\ UNCHANGED <<doc, arg, depth, visited>>

\* parser.resolveSchema(schema)
CallResolveSchema ==
  /\ op = "idle"
  /\ \E schema \in SchemaInputs(doc) :
       /\ arg' = schema
       /\ res' = ResolveSchema(doc, schema, DefaultVisited(visited), MaxStack).val
  /\ op' = "resolveSchema"
  /\ UNCHANGED <<doc, depth, visited>>

\* parser.resolveSchema(r) on the result r of the previous resolveSchema
CallResolveSchemaAgain ==
  /\ op = "resolveSchema"
  /\ ~IsThrow(res)
  /\ arg' = res
  /\ res' = ResolveSchema(doc, res, DefaultVisited(visited), MaxStack).val
  /\ op' = "resolveSchemaAgain"
  /\ UNCHANGED <<doc, depth, visited>>

\* parser.resolveSchema(schema, visited) on the set a resolveRef call of the
\* caller has used
CallResolveSchemaShared ==
  /\ op = "resolveRef"
  /\ \E schema \in SchemaInputs(doc) :
       LET r == ResolveSchema(doc, schema, visited, MaxStack)
       IN /\ arg' = schema
          /\ res' = r.val
          /\ visited' = r.visited
  /\ op' = "resolveSchemaShared"
  /\ UNCHANGED <<doc, depth>>

\* parser.generateExample(schema, depth)
CallGenerateExample ==
  /\ op = "idle"
  /\ \E schema \in SchemaInputs(doc), d \in 0..MaxDepthArg :
       /\ arg' = schema
       /\ depth' = d
       /\ res' = GenerateExample(doc, schema, d, MaxStack)
  /\ op' = "generateExample"
  /\ UNCHANGED <<doc, visited>>

\* parser.getEndpointsByTags()
CallGetEndpointsByTags ==
  /\ op = "idle"
  /\ op' = "getEndpointsByTags"
  /\ res' = GetEndpointsByTags(doc)
  /\ UNCHANGED <<doc, arg, depth, visited>>

\* parser.getWebhooks()
CallGetWebhooks ==
  /\ op = "idle"
  /\ op' = "getWebhooks"
  /\ res' = GetWebhooks(doc)
  /\ UNCHANGED <<doc, arg, depth, visited>>

\* the caller is done with the result and its visited set
Return ==
  /\ op # "idle"
  /\ op' = "idle"
  /\ arg' = Undef
  /\ depth' = 0
  /\ visited' = {}
  /\ res' = Undef
  /\ UNCHANGED doc

Next ==
  \/ CallResolveRef
  \/ CallResolveRefShared
  \/ CallResolveRefRepeat
  \/ CallResolveSchema
  \/ CallResolveSchemaAgain
  \/ CallResolveSchemaShared
  \/ CallGenerateExample
  \/ CallGetEndpointsByTags
  \/ CallGetWebhooks
  \/ Return

Spec == Init /\ [][Next]_vars

-----------------------------------------------------------------------------
(* Vocabulary of the properties                                            *)

RECURSIVE SumSeq(_, _)
SumSeq(f, i) == IF i > Len(f) THEN 0 ELSE f[i] + SumSeq(f, i + 1)

RECURSIVE CountMarkers(_)
\* the number of circular-marker nodes in the tree v
CountMarkers(v) ==
  IF v = CircularMarker THEN 1
  ELSE IF v.k = "object"
    THEN SumSeq([i \in 1..Len(v.keys) |-> CountMarkers(v.o[v.keys[i]])], 1)
  ELSE IF v.k = "array"
    THEN SumSeq([i \in 1..Len(v.a) |-> CountMarkers(v.a[i])], 1)
  ELSE 0

RECURSIVE HasKey(_, _)
\* some mapping of the tree v, at any depth, has the key
HasKey(v, key) ==
  IF v.k = "object"
    THEN key \in DOMAIN v.o \/ \E x \in DOMAIN v.o : HasKey(v.o[x], key)
  ELSE IF v.k = "array" THEN \E i \in 1..Len(v.a) : HasKey(v.a[i], key)
  ELSE FALSE

RECURSIVE ContainerDepth(_)
\* the number of containers (mappings, sequences) nested in the value v
ContainerDepth(v) ==
  LET Max(S) == IF S = {} THEN 0 ELSE CHOOSE m \in S : \A n \in S : n <= m
  IN IF v.k = "object"
       THEN 1 + Max({ContainerDepth(v.o[x]) : x \in DOMAIN v.o})
     ELSE IF v.k = "array"
       THEN 1 + Max({ContainerDepth(v.a[i]) : i \in 1..Len(v.a)})
     ELSE 0

\* v is a schema node that is a mapping with a string $ref
IsRefNode(v) == v.k = "object" /\ Get(v, "$ref").k = "string"

RECURSIVE RefsIn(_)
\* the references held anywhere in the tree v
RefsIn(v) ==
  IF IsRefNode(v) THEN {Get(v, "$ref").s}
  ELSE IF v.k = "object" THEN UNION {RefsIn(v.o[x]) : x \in DOMAIN v.o}
  ELSE IF v.k = "array" THEN UNION {RefsIn(v.a[i]) : i \in 1..Len(v.a)}
  ELSE {}

RECURSIVE FollowedRefs(_)
\* the references of v that sit where resolution descends: the node itself,
\* the properties of an object schema, the items of an array schema, the
\* members of an allOf list
FollowedRefs(v) ==
  IF IsRefNode(v) THEN {Get(v, "$ref").s}
  ELSE IF v.k # "object" THEN {}
  ELSE IF Get(v, "type") = Str("array") /\ Truthy(Get(v, "items"))
    THEN FollowedRefs(Get(v, "items"))
  ELSE IF Get(v, "type") = Str("object") /\ Get(v, "properties").k = "object"
    THEN UNION {FollowedRefs(Get(v, "properties").o[x])
                  : x \in DOMAIN Get(v, "properties").o}
  ELSE IF Get(v, "allOf").k = "array"
    THEN UNION {FollowedRefs(Get(v, "allOf").a[i])
                  : i \in 1..Len(Get(v, "allOf").a)}
  ELSE {}

\* the schema named n in document d
SchemaAt(d, n) == Get(SchemasOf(d), n)

RECURSIVE Closure(_, _, _)
\* the names reached from the names in S along the edges E (name -> names)
Closure(d, E(_, _), S) ==
  LET T == S \cup UNION {E(d, n) : n \in S}
  IN IF T = S THEN S ELSE Closure(d, E, T)

\* n -> m when schema n holds a reference to schema m where resolution descends
FollowedEdges(d, n) ==
  {m \in NameSet(d) : RefTo(m) \in FollowedRefs(SchemaAt(d, n))}

\* n -> m when schema n holds a reference to schema m anywhere
AllEdges(d, n) == {m \in NameSet(d) : RefTo(m) \in RefsIn(SchemaAt(d, n))}

\* schema n lies on a reference cycle that resolution follows
OnFollowedCycle(d, n) ==
  n \in NameSet(d) /\ n \in Closure(d, FollowedEdges, FollowedEdges(d, n))

\* schema n lies on a cycle of bare references: n = {$ref: n1}, n1 = {$ref: n2}, ...
PureEdges(d, n) == {m \in NameSet(d) : SchemaAt(d, n) = SRef(m)}

OnPureCycle(d, n) ==
  n \in NameSet(d) /\ n \in Closure(d, PureEdges, PureEdges(d, n))

\* the names the schema node s refers to, directly or through other schemas
ReachedFrom(d, s) ==
  Closure(d, AllEdges, {m \in NameSet(d) : RefTo(m) \in RefsIn(s)})

\* no schema that s reaches lies on a reference cycle
NonRecursive(d, s) ==
  \A n \in ReachedFrom(d, s) : n \notin Closure(d, AllEdges, AllEdges(d, n))

\* no schema of d lies on a reference cycle
Acyclic(d) ==
  \A n \in NameSet(d) : n \notin Closure(d, AllEdges, AllEdges(d, n))

\* the schema node the input s stands for: the schema it names, through
\* however many references, or itself
RECURSIVE NodeOf(_, _)
NodeOf(d, s) ==
  IF IsRefNode(s) /\ \E n \in NameSet(d) : Get(s, "$ref") = Str(RefTo(n))
    THEN NodeOf(d, SchemaAt(d, CHOOSE n \in NameSet(d) :
                                 Get(s, "$ref") = Str(RefTo(n))))
    ELSE s

\* resolveSchema(s) made on its own, with a fresh visited set
Resolved(d, s) == ResolveSchema(d, s, {}, MaxStack).val

RECURSIVE ExpectObj(_, _)
\* the example of objects nested n levels around a string, seen at `level`
ExpectObj(n, level) ==
  IF n = 0 THEN Str("string")
  ELSE IF level = 5 THEN EmptyObj
  ELSE ObjOf(<< <<"child", ExpectObj(n - 1, level + 1)>> >>)

RECURSIVE ExpectArr(_, _)
\* the example of arrays nested n levels around a string, seen at `level`
ExpectArr(n, level) ==
  IF n = 0 THEN Str("string")
  ELSE IF level = 5 THEN Arr(<<>>)
  ELSE Arr(<<ExpectArr(n - 1, level + 1)>>)

-----------------------------------------------------------------------------
(* Properties                                                              *)

\* C1: resolveSchema called on a schema that lies on a reference cycle
\* (through properties, items or allOf members, of any length) returns
\* without raising, and the tree it returns holds the circular marker.
C1_CycleTerminatesWithMarker ==
  (op = "resolveSchema"
   /\ \E n \in NameSet(doc) : arg \in {SRef(n), SchemaAt(doc, n)}
                              /\ OnFollowedCycle(doc, n))
    => ~IsThrow(res) /\ CountMarkers(res) >= 1

\* C2: resolving {$ref: A}, with a fresh visited set, where A lies on a chain
\* of bare references that closes on itself, returns without raising a tree
\* with exactly one circular marker: the node at which the chain re-enters.
C2_PureChainOneMarker ==
  /\ (op = "resolveSchema"
      /\ \E n \in NameSet(doc) : arg = SRef(n) /\ OnPureCycle(doc, n))
       => res = CircularMarker /\ CountMarkers(res) = 1
  /\ (op = "resolveRef"
      /\ \E n \in NameSet(doc) : arg = Str(RefTo(n)) /\ OnPureCycle(doc, n))
       => res = CircularMarker /\ arg.s \in visited

C2_Witness ==
  /\ op = "resolveSchema"
  /\ doc = ChainDoc(3, "ref", "ref")
  /\ arg = SRef("N1")
  /\ res = CircularMarker

\* C3: when the schema resolved reaches no recursive schema, its result holds
\* no circular marker, and each of its properties that holds a $ref to a
\* schema is resolved to the full content of that schema, however many of
\* its properties, allOf members or items refer to the same schema.
C3_SiblingNonInterference ==
  (op = "resolveSchema" /\ ~IsThrow(res) /\ NonRecursive(doc, arg))
    => /\ CountMarkers(res) = 0
       /\ LET node == NodeOf(doc, arg)
              props == Get(node, "properties")
          IN (Get(node, "type") = Str("object") /\ props.k = "object")
               => \A p \in DOMAIN props.o :
                    IsRefNode(props.o[p])
                      => /\ Get(Get(res, "properties"), p) = Resolved(doc, props.o[p])
                         /\ props.o[p] = SRef("User")
                              => Get(Get(res, "properties"), p) = User

C3_Witness ==
  /\ op = "resolveSchema"
  /\ Get(arg, "properties") = ObjOf(<< <<"a", SRef("User")>>, <<"b", SRef("User")>> >>)
  /\ Get(Get(res, "properties"), "a") = User
  /\ Get(Get(res, "properties"), "b") = User

\* C4: resolving the result of resolveSchema once more gives a structurally
\* equal result.
C4_Idempotent ==
  (op = "resolveSchemaAgain" /\ ~IsThrow(res)) => res = arg

\* C5: no node of the tree resolveSchema returns, at any depth, has a $ref key.
C5_FullyDereferenced ==
  (op = "resolveSchema" /\ ~IsThrow(res)) => ~HasKey(res, "$ref")

\* C6: resolveSchema and generateExample return a value and never raise,
\* whatever the input node; stated over the documents without a reference
\* cycle, where no resolution is unbounded.
C6_NeverRaises ==
  (op \in {"resolveSchema", "generateExample"} /\ Acyclic(doc)) => ~IsThrow(res)

\* C7: generateExample returns on every schema, reference cycles through
\* properties or items included: its recursion, with the inner resolveSchema,
\* is bounded and never exhausts the stack.
C7_ExampleTerminates ==
  op = "generateExample" => res # Throw("RangeError")

\* C8: generateExample(schema, depth) is null whenever depth > 5, explicit
\* example or not; for containers nested n levels deep without explicit
\* examples the example holds the levels 0 to 5 and no level-6 child (the
\* level-5 object is empty, the level-5 array is empty), so that no example
\* built without explicit examples nests more than 6 containers.
C8_DepthBound ==
  op = "generateExample" =>
    /\ depth > 5 => res = Null
    /\ \A n \in 1..MaxNest :
         (doc = NestDoc /\ depth = 0)
           => /\ arg \in {NestObj(n), SRef("Obj" \o IdxStr[n + 1])}
                   => res = ExpectObj(n, 0)
              /\ arg \in {NestArr(n), SRef("Arr" \o IdxStr[n + 1])}
                   => res = ExpectArr(n, 0)
    /\ (~IsThrow(res) /\ ~HasKey(doc, "example")) => ContainerDepth(res) <= 6

C8_Witness ==
  /\ op = "generateExample"
  /\ depth = 0
  /\ arg = NestObj(7)
  /\ ContainerDepth(res) = 6
  /\ res = ExpectObj(7, 0)

\* C9: at depth <= 5, when the resolved schema carries an `example`, falsy
\* values included, generateExample returns exactly that value whatever the
\* declared type; a number or integer schema without `example` gives 0.
C9_ExplicitExample ==
  (op = "generateExample" /\ depth <= 5 /\ ~IsThrow(res))
    => LET resolved == Resolved(doc, arg)
       IN resolved.k = "object"
            => /\ "example" \in DOMAIN resolved.o => res = resolved.o["example"]
               /\ ("example" \notin DOMAIN resolved.o
                   /\ Get(resolved, "type") \in {Str("number"), Str("integer")})
                    => res = Num(0)

C9_Witness ==
  /\ op = "generateExample"
  /\ depth <= 5
  /\ arg = ObjOf(<< <<"type", Str("boolean")>>, <<"example", Bool(FALSE)>> >>)
  /\ res = Bool(FALSE)

\* C10: at depth <= 5, generateExample of a schema node without $ref that
\* declares an `example` returns that example, whatever other keywords the
\* node carries.
C10_OwnExampleAuthoritative ==
  (op = "generateExample" /\ depth <= 5 /\ arg.k = "object"
   /\ "$ref" \notin DOMAIN arg.o /\ "example" \in DOMAIN arg.o)
    => res = arg.o["example"]

\* C11: reference escaping round trip. For every key of `paths`, slashes and
\* tildes included, the reference whose segment is the escaped key (`~` to
\* `~0`, then `/` to `~1`) resolves through resolveRef to the node stored
\* under that key; in particular the segment `~01` designates the key `~1`
\* and not the key `/`.
C11_EscapeRoundTrip ==
  (op = "resolveRef" /\ arg.k = "string") =>
    /\ \A key \in PathKeys(doc) :
         arg.s = PathRef(key) => res = Get(Get(doc, "paths"), key)
    /\ (arg.s = "#/paths/~01" /\ {"~1", "/"} \subseteq PathKeys(doc)) =>
         /\ res = Get(Get(doc, "paths"), "~1")
         /\ res # Get(Get(doc, "paths"), "/")

\* `#/paths/~1users~1{id}` has been resolved to the path item of `/users/{id}`
C11_Witness ==
  /\ op = "resolveRef"
  /\ arg = Str("#/paths/~1users~1{id}")
  /\ "/users/{id}" \in PathKeys(doc)
  /\ res = Get(Get(doc, "paths"), "/users/{id}")
  /\ Get(res, "summary") = Str("/users/{id}")

RECURSIVE Designated(_, _, _)
\* the segments parts[i], parts[i+1], ... name a node below node: each one a
\* key of the mapping, or an index of the sequence, reached so far
Designated(node, parts, i) ==
  \/ i > Len(parts)
  \/ /\ i <= Len(parts)
     /\ \/ node.k = "object" /\ Unescape(parts[i]) \in DOMAIN node.o
        \/ node.k = "array" /\ IsIdx(Unescape(parts[i]), Len(node.a))
     /\ Designated(Get(node, Unescape(parts[i])), parts, i + 1)

\* the reference ref designates no node of document d
DesignatesNothing(d, ref) == ~Designated(d, Split(ref), 2)

\* the result callers treat as "no schema"
NoSchema(v) == v \in {Null, Undef}

\* C12: resolveRef yields "no schema" without raising for every reference
\* that designates nothing: an empty or non-string ref returns null and
\* leaves the visited set as it was, and a ref whose path misses a key or
\* runs through a value that is not a mapping returns the "no schema" result.
C12_DanglingIsNoSchema ==
  op = "resolveRef" =>
    /\ (~Truthy(arg) \/ arg.k # "string") => (res = Null /\ visited = {})
    /\ (Truthy(arg) /\ arg.k = "string" /\ DesignatesNothing(doc, arg.s)) =>
         NoSchema(res)

\* the schema takes the allOf branch of resolveSchema
ReachesAllOf(schema) ==
  /\ Truthy(schema)
  /\ ~Truthy(Get(schema, "$ref"))
  /\ ~(Get(schema, "type") = Str("array") /\ Truthy(Get(schema, "items")))
  /\ ~(Get(schema, "type") = Str("object") /\ Truthy(Get(schema, "properties")))
  /\ Truthy(Get(schema, "allOf"))

\* the properties member i of the allOf of schema contributes, as entries
MemberProps(d, schema, i) ==
  LET props == Get(Resolved(d, Iterate(Get(schema, "allOf"))[i]), "properties")
  IN IF Truthy(props) THEN Entries(props) ELSE <<>>

\* the members of the allOf of schema that define the property key
Definers(d, schema, key) ==
  {i \in 1..Len(Iterate(Get(schema, "allOf"))) :
     \E j \in DOMAIN MemberProps(d, schema, i) :
       MemberProps(d, schema, i)[j][1] = key}

\* the definition member i gives to the property key
DefinitionBy(d, schema, i, key) ==
  LET props == MemberProps(d, schema, i)
  IN props[CHOOSE j \in DOMAIN props : props[j][1] = key][2]

\* the place where the property key is first defined: member, then entry
FirstDefined(d, schema, key) ==
  LET i == CHOOSE m \in Definers(d, schema, key) :
             \A n \in Definers(d, schema, key) : m <= n
      props == MemberProps(d, schema, i)
  IN <<i, CHOOSE j \in DOMAIN props : props[j][1] = key>>

\* C13: allOf merge. For a schema that reaches the allOf branch,
\* resolveSchema returns a single object schema whose `properties` holds
\* exactly the property names of the resolved members, in list order; a name
\* defined by several members has the whole definition of the last of them;
\* members without `properties` contribute nothing.
C13_AllOfMerge ==
  (op = "resolveSchema" /\ ReachesAllOf(arg) /\ ~IsThrow(res)) =>
    LET merged == Get(res, "properties")
        last(key) == CHOOSE m \in Definers(doc, arg, key) :
                       \A n \in Definers(doc, arg, key) : n <= m
    IN /\ Get(res, "type") = Str("object")
       /\ merged.k = "object"
       /\ \A i \in 1..Len(Iterate(Get(arg, "allOf"))) :
            \A j \in DOMAIN MemberProps(doc, arg, i) :
              MemberProps(doc, arg, i)[j][1] \in DOMAIN merged.o
       /\ \A key \in DOMAIN merged.o :
            /\ Definers(doc, arg, key) # {}
            /\ merged.o[key] = DefinitionBy(doc, arg, last(key), key)
       /\ \A a, b \in DOMAIN merged.keys :
            a < b =>
              LET fa == FirstDefined(doc, arg, merged.keys[a])
                  fb == FirstDefined(doc, arg, merged.keys[b])
              IN fa[1] < fb[1] \/ (fa[1] = fb[1] /\ fa[2] < fb[2])

\* an allOf has been merged in which a later member redefines a property of
\* an earlier one and another member has no properties
C13_Witness ==
  /\ op = "resolveSchema"
  /\ ReachesAllOf(arg)
  /\ ~IsThrow(res)
  /\ \E key \in DOMAIN Get(res, "properties").o :
       /\ Cardinality(Definers(doc, arg, key)) >= 2
       /\ \E i \in Definers(doc, arg, key) :
            DefinitionBy(doc, arg, i, key) # Get(res, "properties").o[key]
  /\ \E i \in 1..Len(Iterate(Get(arg, "allOf"))) : MemberProps(doc, arg, i) = <<>>

\* the verbs the Endpoint Indexer recognises
RecognizedVerbs == {"get", "post", "put", "patch", "delete"}

\* the keys of the mapping v; none when v is not a mapping
KeysOf(v) == IF v.k = "object" THEN DOMAIN v.o ELSE {}

\* the operations of document d: the pairs <<path, key>> of a key of a path
\* item that is a recognised verb
Operations(d) ==
  {pm \in KeysOf(Get(d, "paths")) \X RecognizedVerbs :
     pm[2] \in KeysOf(Get(Get(d, "paths"), pm[1]))}

\* the operation object declared at <<path, method>>
OperationAt(d, pm) == Get(Get(Get(d, "paths"), pm[1]), pm[2])

\* the elements of the sequence value v
ElementsOf(v) == {v.a[i] : i \in DOMAIN v.a}

\* the tags of an operation are a list of n >= 1 distinct names
DistinctTags(operation) ==
  LET tags == Get(operation, "tags")
  IN /\ tags.k = "array"
     /\ Len(tags.a) >= 1
     /\ \A i, j \in DOMAIN tags.a : tags.a[i] = tags.a[j] => i = j

\* entry is an Endpoint of the operation at pm: the fields of the operation,
\* and the place of its declaration as `path` and `method` where the
\* operation has no field of that name
IsEndpointOf(entry, d, pm) ==
  LET operation == OperationAt(d, pm)
  IN /\ entry.k = "object"
     /\ DOMAIN entry.o = KeysOf(operation) \cup {"path", "method"}
     /\ \A f \in KeysOf(operation) : entry.o[f] = operation.o[f]
     /\ "path" \notin KeysOf(operation) => entry.o["path"] = Str(pm[1])
     /\ "method" \notin KeysOf(operation) => entry.o["method"] = Str(pm[2])

\* the places in the endpoint list of group that hold an Endpoint of the
\* operation at pm
Occurrences(group, d, pm) ==
  {i \in DOMAIN Get(group, "endpoints").a :
     IsEndpointOf(Get(group, "endpoints").a[i], d, pm)}

\* the groups of a result of getEndpointsByTags
GroupsOf(result) == {result.a[i] : i \in DOMAIN result.a}

\* C14: endpoint fan-out. An operation under a recognised verb that declares
\* N distinct tags appears exactly once in the endpoint list of each of those
\* N tag groups and in no other group, and all its occurrences are equal.
C14_FanOut ==
  (op = "getEndpointsByTags" /\ ~IsThrow(res)) =>
    \A pm \in Operations(doc) :
      DistinctTags(OperationAt(doc, pm)) =>
        LET tags == ElementsOf(Get(OperationAt(doc, pm), "tags"))
        IN /\ \A tag \in tags : \E g \in GroupsOf(res) : Get(g, "name") = tag
           /\ \A g \in GroupsOf(res) :
                Cardinality(Occurrences(g, doc, pm)) =
                  IF Get(g, "name") \in tags THEN 1 ELSE 0
           /\ \A g, h \in GroupsOf(res) :
                \A i \in Occurrences(g, doc, pm), j \in Occurrences(h, doc, pm) :
                  Get(g, "endpoints").a[i] = Get(h, "endpoints").a[j]

\* an operation with two tags is in the two groups of its tags, which also
\* hold another operation, and a third group is without it
C14_Witness ==
  /\ op = "getEndpointsByTags"
  /\ ~IsThrow(res)
  /\ \E pm \in Operations(doc) :
       /\ DistinctTags(OperationAt(doc, pm))
       /\ Len(Get(OperationAt(doc, pm), "tags").a) = 2
       /\ Cardinality({g \in GroupsOf(res) : Occurrences(g, doc, pm) # {}}) = 2
       /\ \E g \in GroupsOf(res) :
            /\ Occurrences(g, doc, pm) # {}
            /\ Len(Get(g, "endpoints").a) >= 2
       /\ \E g \in GroupsOf(res) :
            Occurrences(g, doc, pm) = {} /\ Len(Get(g, "endpoints").a) >= 1

\* the entries of the top-level `tags` of d that declare the tag name
Declarations(d, name) ==
  IF Get(d, "tags").k = "array"
    THEN {t \in ElementsOf(Get(d, "tags")) : Get(t, "name") = name}
    ELSE {}

\* C15: untagged operation. Every operation under a recognised verb that has
\* no `tags` field appears exactly once in the group named "Other" and in no
\* other group; that group has the empty description unless the top-level
\* `tags` declares it, and without a declaration it exists only once an
\* operation needs it.
C15_UntaggedInOther ==
  (op = "getEndpointsByTags" /\ ~IsThrow(res)) =>
    /\ \A g \in GroupsOf(res) :
         (Get(g, "name") = Str("Other") /\ Declarations(doc, Str("Other")) = {})
           => Get(g, "endpoints").a # <<>>
    /\ \A pm \in Operations(doc) :
      "tags" \notin KeysOf(OperationAt(doc, pm)) =>
        /\ \A g \in GroupsOf(res) :
             Cardinality(Occurrences(g, doc, pm)) =
               IF Get(g, "name") = Str("Other") THEN 1 ELSE 0
        /\ \E g \in GroupsOf(res) :
             /\ Get(g, "name") = Str("Other")
             /\ IF Declarations(doc, Str("Other")) = {}
                  THEN Get(g, "description") = Str("")
                  ELSE \E t \in Declarations(doc, Str("Other")) :
                         Get(g, "description") = Get(t, "description")

\* an operation without `tags` is in the group "Other", which no top-level
\* tag declares, next to a group of declared tags
C15_Witness ==
  /\ op = "getEndpointsByTags"
  /\ ~IsThrow(res)
  /\ Declarations(doc, Str("Other")) = {}
  /\ Declarations(doc, Str("B")) # {}
  /\ \E pm \in Operations(doc), g \in GroupsOf(res) :
       /\ "tags" \notin KeysOf(OperationAt(doc, pm))
       /\ Get(g, "name") = Str("Other")
       /\ Get(g, "description") = Str("")
       /\ Occurrences(g, doc, pm) # {}

\* the top-level `tags` of d as a sequence; empty when d declares none
DeclaredTags(d) == IF Get(d, "tags").k = "array" THEN Get(d, "tags").a ELSE <<>>

\* the tag names the operation is filed under: its `tags`, or "Other"
\* when it has no `tags` field
TagNames(operation) ==
  IF "tags" \in KeysOf(operation) THEN Get(operation, "tags").a
  ELSE <<Str("Other")>>

\* d is a document of the shape the Endpoint Indexer is written for: the
\* top-level `tags`, if any, is a list of mappings with pairwise distinct
\* names, and the `tags` of an operation, if any, is a list
WellFormedIndex(d) ==
  /\ "tags" \in KeysOf(d) => Get(d, "tags").k = "array"
  /\ \A i, j \in DOMAIN DeclaredTags(d) :
       /\ DeclaredTags(d)[i].k = "object"
       /\ Get(DeclaredTags(d)[i], "name") = Get(DeclaredTags(d)[j], "name")
            => i = j
  /\ \A pm \in Operations(d) :
       "tags" \in KeysOf(OperationAt(d, pm))
         => Get(OperationAt(d, pm), "tags").k = "array"

\* the place of key in the key order of the mapping v
KeyIndex(v, key) == CHOOSE i \in DOMAIN v.keys : v.keys[i] = key

\* the steps of the walk of `paths` that file an endpoint under the tag
\* name: <<place of the path, place of the verb, place of the tag>>
Mentions(d, name) ==
  UNION {{<<KeyIndex(Get(d, "paths"), pm[1]),
            KeyIndex(Get(Get(d, "paths"), pm[1]), pm[2]), t>> :
            t \in {u \in DOMAIN TagNames(OperationAt(d, pm)) :
                     TagNames(OperationAt(d, pm))[u] = name}} :
         pm \in Operations(d)}

\* step a comes before step b in the walk
Before(a, b) ==
  \/ a[1] < b[1]
  \/ a[1] = b[1] /\ a[2] < b[2]
  \/ a[1] = b[1] /\ a[2] = b[2] /\ a[3] < b[3]

\* the step of S that has exactly n - 1 steps of S before it
NthStep(S, n) ==
  CHOOSE a \in S : Cardinality({b \in S : Before(b, a)}) = n - 1

\* the operation <<path, verb>> a step of the walk of d is about
OperationOf(d, step) ==
  <<Get(d, "paths").keys[step[1]],
    Get(Get(d, "paths"), Get(d, "paths").keys[step[1]]).keys[step[2]]>>

\* C16: tag-group ordering. The groups seeded from the top-level `tags` come
\* first, in declared order, each with its declared description, whether or
\* not an endpoint falls into them; the groups of tags only operations
\* mention follow, in order of first encounter during the walk of `paths`,
\* each with the empty description; the endpoints of a group are in the
\* order in which the walk of (path, method) pairs met them.
C16_GroupOrder ==
  (op = "getEndpointsByTags" /\ ~IsThrow(res) /\ WellFormedIndex(doc)) =>
    LET declared == DeclaredTags(doc)
    IN /\ Len(res.a) >= Len(declared)
       /\ \A i \in DOMAIN declared :
            /\ Get(res.a[i], "name") = Get(declared[i], "name")
            /\ Get(res.a[i], "description") = Get(declared[i], "description")
       /\ \A i \in DOMAIN res.a :
            i > Len(declared) =>
              /\ Declarations(doc, Get(res.a[i], "name")) = {}
              /\ Get(res.a[i], "description") = Str("")
              /\ Mentions(doc, Get(res.a[i], "name")) # {}
              /\ \A j \in DOMAIN res.a :
                   (Len(declared) < j /\ j < i) =>
                     Before(NthStep(Mentions(doc, Get(res.a[j], "name")), 1),
                            NthStep(Mentions(doc, Get(res.a[i], "name")), 1))
       /\ \A i \in DOMAIN res.a :
            LET steps == Mentions(doc, Get(res.a[i], "name"))
                endpoints == Get(res.a[i], "endpoints").a
            IN /\ Len(endpoints) = Cardinality(steps)
               /\ \A n \in DOMAIN endpoints :
                    IsEndpointOf(endpoints[n], doc,
                                 OperationOf(doc, NthStep(steps, n)))

\* a result with a declared group that is empty, behind it two groups of
\* undeclared tags, and a group with endpoints of two paths
C16_Witness ==
  /\ op = "getEndpointsByTags"
  /\ ~IsThrow(res)
  /\ WellFormedIndex(doc)
  /\ Len(DeclaredTags(doc)) >= 2
  /\ Len(res.a) >= Len(DeclaredTags(doc)) + 2
  /\ \E i \in DOMAIN DeclaredTags(doc) : Get(res.a[i], "endpoints").a = <<>>
  /\ \E i \in DOMAIN res.a :
       \E a, b \in Mentions(doc, Get(res.a[i], "name")) : a[1] # b[1]

\* the pairs <<path, key>> of a key of a path item that is no recognised verb
OtherKeys(d) ==
  UNION {{<<path, key>> :
            key \in KeysOf(Get(Get(d, "paths"), path)) \ RecognizedVerbs} :
         path \in KeysOf(Get(d, "paths"))}

\* the endpoints of all groups of a result of getEndpointsByTags
EndpointsOf(result) ==
  UNION {ElementsOf(Get(g, "endpoints")) : g \in GroupsOf(result)}

\* C17: getEndpointsByTags builds an Endpoint only for the path-item keys
\* get, post, put, patch and delete: every endpoint of every group is the
\* Endpoint of an operation under one of these verbs, none carries the path
\* and the key of another path-item key, and every group is that of a
\* declared tag or of a tag of an operation under one of these verbs.
C17_OnlyRecognizedVerbs ==
  (op = "getEndpointsByTags" /\ ~IsThrow(res) /\ WellFormedIndex(doc)) =>
    /\ \A e \in EndpointsOf(res) :
         /\ \E pm \in Operations(doc) : IsEndpointOf(e, doc, pm)
         /\ \A pk \in OtherKeys(doc) :
              ~(Get(e, "path") = Str(pk[1]) /\ Get(e, "method") = Str(pk[2]))
    /\ \A g \in GroupsOf(res) :
         \/ Declarations(doc, Get(g, "name")) # {}
         \/ Mentions(doc, Get(g, "name")) # {}

\* a path item with the keys `parameters`, `summary`, `head`, `options` and
\* `GET` next to recognised verbs has been indexed: its operations under the
\* verbs are there, and the tag only `head` mentions has no group
C17_Witness ==
  /\ op = "getEndpointsByTags"
  /\ ~IsThrow(res)
  /\ WellFormedIndex(doc)
  /\ \E path \in KeysOf(Get(doc, "paths")) :
       /\ {"parameters", "summary", "head", "options", "GET"}
            \subseteq {pk[2] : pk \in {qk \in OtherKeys(doc) : qk[1] = path}}
       /\ Get(Get(Get(Get(doc, "paths"), path), "head"), "tags") = TagList(<<"H">>)
       /\ \E pm \in Operations(doc) :
            pm[1] = path /\ \E e \in EndpointsOf(res) : IsEndpointOf(e, doc, pm)
  /\ \A g \in GroupsOf(res) : Get(g, "name") # Str("H")

\* the keys of the mapping v in order; none when v is not a mapping
KeySeq(v) == IF v.k = "object" THEN v.keys ELSE <<>>

\* the number of keys of the method-map of the n-th webhook of d
MethodCount(d, n) ==
  Len(KeySeq(Get(Get(d, "webhooks"), KeySeq(Get(d, "webhooks"))[n])))

\* the number of entries the webhooks before the n-th one account for
EntriesBefore(d, n) == SumSeq([m \in 1..(n - 1) |-> MethodCount(d, m)], 1)

\* entry is {name, method} merged with the fields of details
IsWebhookOf(entry, name, method, details) ==
  /\ entry.k = "object"
  /\ DOMAIN entry.o = KeysOf(details) \cup {"name", "method"}
  /\ \A f \in KeysOf(details) : entry.o[f] = details.o[f]
  /\ "name" \notin KeysOf(details) => entry.o["name"] = Str(name)
  /\ "method" \notin KeysOf(details) => entry.o["method"] = Str(method)

\* C18: getWebhooks returns exactly one entry per (name, key) pair of the
\* `webhooks` mapping, names outer and keys inner in document order, each
\* entry being {name, method} merged with the fields stored under the key;
\* the number of entries is the total number of keys of all method-maps, and
\* a document without `webhooks` yields the empty sequence.
C18_WebhooksFlattened ==
  (op = "getWebhooks" /\ ~IsThrow(res)) =>
    LET webhooks == Get(doc, "webhooks")
        names == KeySeq(webhooks)
    IN /\ res.k = "array"
       /\ Len(res.a) = EntriesBefore(doc, Len(names) + 1)
       /\ "webhooks" \notin KeysOf(doc) => res = Arr(<<>>)
       /\ \A n \in DOMAIN names :
            \A j \in DOMAIN KeySeq(Get(webhooks, names[n])) :
              LET method == KeySeq(Get(webhooks, names[n]))[j]
              IN IsWebhookOf(res.a[EntriesBefore(doc, n) + j], names[n], method,
                             Get(Get(webhooks, names[n]), method))

\* two webhooks, the second with several keys, have been flattened into
\* entries that carry the fields stored under their keys
C18_Witness ==
  /\ op = "getWebhooks"
  /\ ~IsThrow(res)
  /\ Len(KeySeq(Get(doc, "webhooks"))) = 2
  /\ MethodCount(doc, 2) >= 2
  /\ Len(res.a) >= 4
  /\ Get(res.a[1], "summary") = Str("ab")
  /\ Get(res.a[2], "name") = Str(KeySeq(Get(doc, "webhooks"))[2])

\* C19: for every Document whose root is a mapping, getEndpointsByTags and
\* getWebhooks return without raising, whatever the shape of the nested
\* data: a path item or webhook that is null, an operation that is null or
\* not a mapping, `tags` that is not a sequence.
C19_IndexNeverRaises ==
  (op \in {"getEndpointsByTags", "getWebhooks"} /\ doc.k = "object") =>
    ~IsThrow(res)

FormatLiteral(f) ==
  IF f = Str("date") THEN Str("2024-05-01")
  ELSE IF f = Str("date-time") THEN Str("2024-05-01T12:00:00Z")
  ELSE IF f = Str("uuid") THEN Str("550e8400-e29b-41d4-a716-446655440000")
  ELSE Str("string")

\* C21: example by declared type, for a resolved schema without `example`
\* at depth <= 5: a string gives the first value of its enum when it has
\* one, else the literal of its format (date, date-time, uuid), else
\* "string"; number and integer give 0; boolean gives true; any other or a
\* missing type gives null.
C21_ExampleByType ==
  (op = "generateExample" /\ depth <= 5 /\ ~IsThrow(res)) =>
    LET resolved == Resolved(doc, arg)
        type == Get(resolved, "type")
        enum == Get(resolved, "enum")
    IN (Truthy(resolved) /\ "example" \notin KeysOf(resolved)) =>
         /\ (type = Str("string") /\ enum.k = "array" /\ enum.a # <<>>)
              => res = enum.a[1]
         /\ (type = Str("string") /\ "enum" \notin KeysOf(resolved))
              => res = FormatLiteral(Get(resolved, "format"))
         /\ type \in {Str("number"), Str("integer")} => res = Num(0)
         /\ type = Str("boolean") => res = Bool(TRUE)
         /\ type \notin {Str("string"), Str("number"), Str("integer"),
                          Str("boolean"), Str("array"), Str("object")}
              => res = Null

\* a string schema with both a format and an enum has been given the first
\* value of its enum
C21_Witness ==
  /\ op = "generateExample"
  /\ depth <= 5
  /\ Get(Resolved(doc, arg), "type") = Str("string")
  /\ Get(Resolved(doc, arg), "format") = Str("date")
  /\ Get(Resolved(doc, arg), "enum") = Arr(<<Str("2020-02-02")>>)
  /\ res = Str("2020-02-02")

\* generateExample(child, level) made on its own
ExampleOf(d, child, level) == GenerateExample(d, child, level, MaxStack)

\* the entries of `properties` whose example at `level` is not null
KeptProps(d, properties, level) ==
  SelectSeq(Entries(properties), LAMBDA e : ExampleOf(d, e[2], level) # Null)

\* C22: container examples drop null children. For a resolved schema
\* without `example` at depth <= 5: an array gives the one-element sequence
\* of the example of its `items` when that is not null and the empty
\* sequence otherwise, also without `items`; an object without `properties`
\* gives the empty mapping, and otherwise the mapping of exactly those
\* properties, in property order, whose example is not null, so that no key
\* of the result maps to null.
C22_ContainersDropNull ==
  (op = "generateExample" /\ depth <= 5 /\ ~IsThrow(res)) =>
    LET resolved == Resolved(doc, arg)
        type == Get(resolved, "type")
        item == ExampleOf(doc, Get(resolved, "items"), depth + 1)
        kept == KeptProps(doc, Get(resolved, "properties"), depth + 1)
    IN (Truthy(resolved) /\ "example" \notin KeysOf(resolved)) =>
         /\ type = Str("array") =>
              /\ res = IF item # Null THEN Arr(<<item>>) ELSE Arr(<<>>)
              /\ "items" \notin KeysOf(resolved) => res = Arr(<<>>)
              /\ Null \notin ElementsOf(res)
         /\ (type = Str("object") /\ ~Truthy(Get(resolved, "properties")))
              => res = EmptyObj
         /\ (type = Str("object") /\ Truthy(Get(resolved, "properties"))) =>
              /\ res.k = "object"
              /\ res.keys = [n \in DOMAIN kept |-> kept[n][1]]
              /\ \A n \in DOMAIN kept :
                   res.o[kept[n][1]] = ExampleOf(doc, kept[n][2], depth + 1)
              /\ \A key \in DOMAIN res.o : res.o[key] # Null

\* an object with six properties, two of them with a null example and one
\* an array of null items, has been given an example of four keys
C22_Witness ==
  /\ op = "generateExample"
  /\ depth = 0
  /\ Len(KeySeq(Get(Resolved(doc, arg), "properties"))) = 6
  /\ res.k = "object"
  /\ res.keys = <<"id", "at", "tags", "on">>
  /\ res.o["tags"] = Arr(<<>>)

\* resolveSchema descends into the node v: into its items, its properties
\* or the members of its allOf
Descends(v) ==
  /\ v.k = "object"
  /\ ~Truthy(Get(v, "$ref"))
  /\ \/ Get(v, "type") = Str("array") /\ Truthy(Get(v, "items"))
     \/ Get(v, "type") = Str("object") /\ Truthy(Get(v, "properties"))
     \/ Get(v, "allOf").k = "array"

\* the visited set resolveSchema, called with the set `given`, goes on with
\* into the target of the reference ref once it has resolved it
ThreadedInto(d, ref, given) ==
  BranchVisited(given, ResolveRef(d, Str(ref), given, MaxStack).visited)

\* C23: visited-set threading in resolveSchema. Whenever resolveSchema
\* resolves a `$ref` r and then descends into the properties, items or allOf
\* members of the target of r, r is a member of the visited set the
\* descendant resolutions are given, so that a descendant `$ref` to r is
\* answered with the circular marker.
C23_ChainSharesVisited ==
  op = "resolveSchema" =>
    \A n \in NameSet(doc) :
      (arg = SRef(n) /\ Descends(SchemaAt(doc, n))) =>
        /\ RefTo(n) \in ThreadedInto(doc, RefTo(n), {})
        /\ n \in FollowedEdges(doc, n)
             => (~IsThrow(res) /\ CountMarkers(res) >= 1)

\* the number of distinct reference strings of the document d
DistinctRefs(d) == Cardinality(RefsIn(d))

\* the resolveRef calls of the chain that starts at ref on the set given stay
\* within `most`, and the chain ends before the stack does
ChainWithin(d, ref, given, most) ==
  /\ ResolveRefCalls(d, ref, given, MaxStack) <= most
  /\ most < MaxStack
  /\ ~IsThrow(ResolveRef(d, ref, given, MaxStack).val)

\* C24: resolveRef always terminates. Starting from any reference and any
\* visited set, the number of nested resolveRef calls of one chain is at most
\* the number of distinct reference strings of the document plus two (the
\* call of the caller's own reference, which the document need not hold, one
\* call for each reference of the document, and the call that is answered
\* with the marker), because every call but the last adds a reference that
\* was not yet in `visited`.
C24_ResolveRefTerminates ==
  op = "resolveRef" =>
    /\ ~IsThrow(res)
    /\ ChainWithin(doc, arg, {}, DistinctRefs(doc) + 2)
    /\ Cardinality(visited) >= ResolveRefCalls(doc, arg, {}, MaxStack) - 1
    /\ \A ref \in RefInputs(doc) :
         ChainWithin(doc, ref, visited, DistinctRefs(doc) + 2)

\* a chain of as many calls as the bound allows: B -> A -> A, with one
\* reference string in the document and three calls
C24_Witness ==
  /\ op = "resolveRef"
  /\ DistinctRefs(doc) = 1
  /\ ResolveRefCalls(doc, arg, {}, MaxStack) = 3
  /\ Cardinality(visited) = 2
  /\ res = CircularMarker

\* C24 as stated: at most the number of distinct reference strings of the
\* document plus one
C24_BoundByDocumentRefs ==
  op = "resolveRef" =>
    /\ ~IsThrow(res)
    /\ ChainWithin(doc, arg, {}, DistinctRefs(doc) + 1)
    /\ \A ref \in RefInputs(doc) :
         ChainWithin(doc, ref, visited, DistinctRefs(doc) + 1)

\* the object `after` is the object `before` with nothing but the value of
\* key replaced: the same keys in the same order, the other values the same
SameBut(before, after, key) ==
  /\ after.k = "object"
  /\ after.keys = before.keys
  /\ \A x \in DOMAIN before.o : x # key => after.o[x] = before.o[x]

\* the branch of resolveSchema the precedence order gives the node v
BranchOf(v) ==
  IF ~Truthy(v) THEN "absent"
  ELSE IF Truthy(Get(v, "$ref")) THEN "$ref"
  ELSE IF Get(v, "type") = Str("array") /\ Truthy(Get(v, "items")) THEN "array"
  ELSE IF Get(v, "type") = Str("object") /\ Truthy(Get(v, "properties"))
    THEN "object"
  ELSE IF Truthy(Get(v, "allOf")) THEN "allOf"
  ELSE "unchanged"

\* C25: the branches of resolveSchema are taken in the order absent node,
\* `$ref`, array with items, object with properties, allOf, unchanged. A node
\* with `$ref` and other keywords resolves to exactly what the `$ref` alone
\* resolves to; an array with items keeps every other keyword; a node with
\* type object, properties and allOf has its properties resolved and keeps
\* its allOf list as it is, with no merge.
C25_BranchPrecedence ==
  (op = "resolveSchema" /\ ~IsThrow(res)) =>
    LET branch == BranchOf(arg)
        props == Get(arg, "properties")
    IN /\ branch = "absent" => res = Null
       /\ branch = "$ref" =>
            res = Resolved(doc, ObjOf(<< <<"$ref", Get(arg, "$ref")>> >>))
       /\ branch = "array" =>
            /\ SameBut(arg, res, "items")
            /\ res.o["items"] = Resolved(doc, Get(arg, "items"))
       /\ branch = "object" =>
            /\ SameBut(arg, res, "properties")
            /\ props.k = "object" =>
                 /\ res.o["properties"].keys = props.keys
                 /\ \A x \in DOMAIN props.o :
                      res.o["properties"].o[x] = Resolved(doc, props.o[x])
       /\ branch = "allOf" =>
            /\ Get(res, "type") = Str("object")
            /\ Get(res, "properties").k = "object"
            /\ "allOf" \notin KeysOf(res)
       /\ branch = "unchanged" => res = arg

\* an object with properties and an allOf list: the property is resolved to
\* the schema it refers to and the allOf list still holds the reference
C25_Witness ==
  /\ op = "resolveSchema"
  /\ doc = PrecedenceDoc
  /\ arg = SchemaAt(doc, "ObjAll")
  /\ res.keys = <<"allOf", "type", "properties">>
  /\ res.o["allOf"] = Arr(<<SRef("Leaf")>>)
  /\ res.o["properties"] = ObjOf(<< <<"p", SchemaAt(doc, "Leaf")>> >>)

\* the node v offers alternatives, oneOf or anyOf, and none of the branches
\* of resolveSchema applies to it
PlainChoice(v) ==
  /\ v.k = "object"
  /\ {"oneOf", "anyOf"} \cap DOMAIN v.o # {}
  /\ ~Truthy(Get(v, "$ref"))
  /\ ~(Get(v, "type") = Str("array") /\ Truthy(Get(v, "items")))
  /\ ~(Get(v, "type") = Str("object") /\ Truthy(Get(v, "properties")))
  /\ ~Truthy(Get(v, "allOf"))

\* C26: resolveSchema does not expand oneOf and anyOf. A node with oneOf or
\* anyOf that has no `$ref`, is not an array with items, is not an object
\* with properties and has no allOf is returned unchanged, its list of
\* alternatives intact, references in it included; generateExample of such
\* a node without type and without example is null.
C26_ChoiceNotExpanded ==
  /\ (op = "resolveSchema" /\ PlainChoice(arg)) => res = arg
  /\ (op = "generateExample" /\ PlainChoice(arg)
       /\ {"type", "example"} \cap DOMAIN arg.o = {}) => res = Null

\* a choice between a reference and a string comes back with the reference
\* still in the list
C26_Witness ==
  /\ op = "resolveSchema"
  /\ doc = PrecedenceDoc
  /\ arg = SchemaAt(doc, "Choice")
  /\ res.keys = <<"oneOf", "description">>
  /\ res.o["oneOf"] = Arr(<<SRef("Leaf"), Typed("string")>>)

\* the node v is resolved by the allOf branch: it is there, and it has no
\* `$ref`, is not an array with items and not an object with properties
MergesAllOf(v) ==
  /\ v.k = "object"
  /\ Get(v, "allOf").k = "array"
  /\ ~Truthy(Get(v, "$ref"))
  /\ ~(Get(v, "type") = Str("array") /\ Truthy(Get(v, "items")))
  /\ ~(Get(v, "type") = Str("object") /\ Truthy(Get(v, "properties")))

\* C27: the result of the allOf branch of resolveSchema has exactly the two
\* attributes `type`, which is "object", and `properties`. The `required`
\* lists of the members are not merged into it, and every other attribute of
\* the members and of the enclosing node (required, description, example,
\* oneOf, ...) is absent from the result.
C27_MergeKeepsTypeAndProperties ==
  (op = "resolveSchema" /\ ~IsThrow(res)
   /\ \/ MergesAllOf(arg)
      \/ \E n \in NameSet(doc) : arg = SRef(n) /\ MergesAllOf(SchemaAt(doc, n)))
    => /\ res.k = "object"
       /\ res.keys = <<"type", "properties">>
       /\ res.o["type"] = Str("object")
       /\ res.o["properties"].k = "object"

\* an allOf node with required, example and oneOf of its own and a member
\* with required, description and additionalProperties: the result has type
\* and the merged properties, and nothing else
C27_Witness ==
  /\ op = "resolveSchema"
  /\ doc = MergeDoc
  /\ arg = SchemaAt(doc, "Strict")
  /\ "required" \in DOMAIN arg.o
  /\ "required" \in DOMAIN arg.o["allOf"].a[1].o
  /\ DOMAIN res.o = {"type", "properties"}
  /\ res.o["properties"].keys = <<"id", "name", "extra">>

RECURSIVE TagEntries(_, _)
\* the sum, over the operations ops of document d, of the number of entries
\* of their tags, one for the implicit "Other" of an operation without tags
TagEntries(d, ops) ==
  IF ops = {} THEN 0
  ELSE LET pm == CHOOSE x \in ops : TRUE
       IN Len(TagNames(OperationAt(d, pm))) + TagEntries(d, ops \ {pm})

\* the number of endpoint entries of a result of getEndpointsByTags, over
\* all its groups
EndpointEntries(result) ==
  SumSeq([i \in DOMAIN result.a |-> Len(Get(result.a[i], "endpoints").a)], 1)

\* C28: every operation declared under a recognised verb in `paths` appears
\* in at least one tag group of getEndpointsByTags, and the number of
\* endpoint entries over all groups is the sum, over those operations, of
\* the number of entries of their `tags` (one for the implicit "Other"),
\* also for an operation whose `tags` is the empty list and for one that
\* lists a tag twice.
C28_EveryOperationGrouped ==
  (op = "getEndpointsByTags" /\ ~IsThrow(res) /\ WellFormedIndex(doc)) =>
    /\ \A pm \in Operations(doc) :
         \E group \in GroupsOf(res) : Occurrences(group, doc, pm) # {}
    /\ EndpointEntries(res) = TagEntries(doc, Operations(doc))

\* every Endpoint of the operation at pm, in whatever group, has the place
\* of the declaration as its `path` and `method`
PlacedAt(result, d, pm) ==
  \A group \in GroupsOf(result) :
    \A i \in Occurrences(group, d, pm) :
      /\ Get(Get(group, "endpoints").a[i], "path") = Str(pm[1])
      /\ Get(Get(group, "endpoints").a[i], "method") = Str(pm[2])

\* the entry of getWebhooks that stands for key j of webhook n has the name
\* of the webhook and the key as its `name` and `method`
NamedAt(result, d, n, j) ==
  LET entry == result.a[EntriesBefore(d, n) + j]
      name == KeySeq(Get(d, "webhooks"))[n]
  IN /\ Get(entry, "name") = Str(name)
     /\ Get(entry, "method") = Str(KeySeq(Get(Get(d, "webhooks"), name))[j])

\* C29: every Endpoint of getEndpointsByTags carries the synthetic `path`
\* and `method`: the key of `paths` and the verb key the operation is
\* declared under, also for an operation that has a field named `path` or
\* `method` itself; likewise every entry of getWebhooks has `name` and
\* `method` equal to the webhook name and the key it came from.
C29_SyntheticFieldsWin ==
  /\ (op = "getEndpointsByTags" /\ ~IsThrow(res)) =>
       \A pm \in Operations(doc) : PlacedAt(res, doc, pm)
  /\ (op = "getWebhooks" /\ ~IsThrow(res)) =>
       \A n \in DOMAIN KeySeq(Get(doc, "webhooks")) :
         \A j \in 1..MethodCount(doc, n) : NamedAt(res, doc, n, j)

\* ref is a reference resolveRef takes up: a string that is not empty
WellFormedRef(ref) == ref.k = "string" /\ Truthy(ref)

RECURSIVE ChainOf(_, _, _)
\* the reference strings traversed along the chain that starts at ref: ref
\* itself, the `$ref` of what it designates, and so on, up to the first one
\* that is ill-formed or in `seen`
ChainOf(d, ref, seen) ==
  IF ~WellFormedRef(ref) \/ ref.s \in seen THEN {}
  ELSE {ref.s}
       \cup ChainOf(d, Get(Walk(d, Split(ref.s), 2), "$ref"), seen \cup {ref.s})

RECURSIVE EndsAtTarget(_, _, _)
\* the chain that starts at ref reaches a target: it meets no reference that
\* is ill-formed or in `seen`
EndsAtTarget(d, ref, seen) ==
  /\ WellFormedRef(ref)
  /\ ref.s \notin seen
  /\ LET next == Get(Walk(d, Split(ref.s), 2), "$ref")
     IN Truthy(next) => EndsAtTarget(d, next, seen \cup {ref.s})

\* what one resolveRef call for ref does to the set of its caller: nothing
\* when the call itself is answered at once, for an ill-formed ref or one
\* already in the set; else it adds the chain, and removes nothing
EffectOf(d, ref, before, after, result) ==
  /\ before \subseteq after
  /\ ~WellFormedRef(ref) => (after = before /\ result = Null)
  /\ (WellFormedRef(ref) /\ ref.s \in before)
       => (after = before /\ result = CircularMarker)
  /\ (WellFormedRef(ref) /\ ref.s \notin before)
       => after = before \cup ChainOf(d, ref, before)

\* the effect as stated: nothing whenever the answer is the marker or the
\* ref is ill-formed, else the chain
StatedEffectOf(d, ref, before, after, result) ==
  /\ before \subseteq after
  /\ IF result = CircularMarker \/ ~WellFormedRef(ref)
       THEN after = before
       ELSE after = before \cup ChainOf(d, ref, before)

\* C30: the effect of resolveRef on the visited set of its caller. A call
\* whose own reference is ill-formed or already in the set is answered at
\* once, with null or the marker, and leaves the set unchanged; every other
\* call adds exactly the reference strings traversed along its chain, also
\* when the chain ends in the marker, and removes nothing. Hence the second
\* of two successive calls for the same well-formed reference on one shared
\* set returns the marker and leaves the set as it is, while the first
\* returns the target when its chain reaches one. resolveSchema never
\* changes the visited set its caller passed in.
C30_VisitedEffect ==
  [][/\ (op = "idle" /\ op' = "resolveRef")
          => EffectOf(doc, arg', {}, visited', res')
     /\ (op = "resolveRef" /\ op' = "resolveRefShared")
          => /\ EffectOf(doc, arg', visited, visited', res')
             /\ (arg' = arg /\ WellFormedRef(arg))
                  => /\ res' = CircularMarker
                     /\ visited' = visited
                     /\ EndsAtTarget(doc, arg, {}) => res # CircularMarker
     /\ (op = "resolveRef" /\ op' = "resolveSchemaShared")
          => visited' = visited]_vars

\* a second call for A on the set the first call for A left: the set holds
\* A and the User it refers to, and the answer is the marker
C30_Witness ==
  /\ op = "resolveRefShared"
  /\ arg = Str(RefTo("A"))
  /\ SchemaAt(doc, "A") = SRef("User")
  /\ visited = {RefTo("A"), RefTo("User")}
  /\ res = CircularMarker

\* C30 as stated: a call answered with the marker leaves the set unchanged,
\* and the first of two calls for the same well-formed reference returns
\* the target
C30_MarkerLeavesSet ==
  [][/\ (op = "idle" /\ op' = "resolveRef")
          => StatedEffectOf(doc, arg', {}, visited', res')
     /\ (op = "resolveRef" /\ op' = "resolveRefShared")
          => /\ StatedEffectOf(doc, arg', visited, visited', res')
             /\ (arg' = arg /\ WellFormedRef(arg))
                  => (res' = CircularMarker /\ res # CircularMarker)
     /\ (op = "resolveRef" /\ op' = "resolveSchemaShared")
          => visited' = visited]_vars

=============================================================================
